---- MODULE Spec2Model ----
(***************************************************************************)
(* The event-to-tree reducer of flutter-test-output-parser: parseSync /    *)
(* parseAsync read one line at a time, decode it with JSON.parse, fold it  *)
(* into the node table with addEventToTrees, remember the done event and   *)
(* append the event to the log (index-only table shape, child-id lists).   *)
(***************************************************************************)
EXTENDS Integers, Sequences, FiniteSets, TLC

\* The field names of the events, nodes and result, in the order in which the
\* record constructors below list them (TLC orders the fields of a record by
\* first appearance of their names).
FieldNames ==
  [type |-> 1, suite |-> 2, group |-> 3, test |-> 4, id |-> 5, suiteID |-> 6,
   parentID |-> 7, name |-> 8, groupIDs |-> 9, testID |-> 10, result |-> 11,
   message |-> 12, success |-> 13, children |-> 14, done |-> 15, print |-> 16,
   error |-> 17, items |-> 18, allEvents |-> 19, table |-> 20, doneEvent |-> 21,
   time |-> 22, json |-> 23, fn |-> 24, arg |-> 25, threw |-> 26, value |-> 27,
   sync |-> 28, async |-> 29, minutes |-> 30, seconds |-> 31, milliseconds |-> 32,
   readAt |-> 33, parent |-> 34]

VARIABLES
  lines,      \* the lines pulled from the line source so far, in order
  trees,      \* the node table under construction
  allEvents,  \* the event log
  doneEvent,  \* the last done event seen, or null
  pc,         \* "reading" | "thrown" | "returned"
  result,     \* what the caller received, undefined until the return
  totalDurationInSeconds,  \* the terminal marker of the Map-shaped variant
  text,       \* the whole text handed to parseSync / parseAsync
  outcome,    \* what each entry point made of `text`
  query,      \* the last helper call on the returned table, and its outcome
  runs        \* the locals of each of two parseAsync invocations in flight

vars ==
  <<lines, trees, allEvents, doneEvent, pc, result, totalDurationInSeconds,
    text, outcome, query, runs>>

(***************************************************************************)
(* Bounds of the model.                                                    *)
(***************************************************************************)
MaxId == 2
MaxLines == 3
MaxGroupIDs == 2
MaxChars == 3

Ids == 0 .. MaxId
SuiteIDs == {0}
GroupNames == {"", "g"}
Results == {"success", "error", "failure"}
Messages == {"m1", "m2"}
Times == {1000, 2000}

(***************************************************************************)
(* JavaScript null / undefined.  parentID is `number | null`; the sentinel *)
(* for null is an integer outside Ids so that it compares with ids; the    *)
(* null of `DoneEvent | null` is a record so that it compares with events. *)
(***************************************************************************)
Null == -1
JsNull == [type |-> "null"]
Undefined == [type |-> "undefined"]

(***************************************************************************)
(* Events (the decoded values of the lines).                               *)
(***************************************************************************)
StartEvent == [type |-> "start"]
SuiteEvent(id) == [type |-> "suite", suite |-> [id |-> id]]
GroupEvent(id, suiteID, parentID, name) ==
  [type |-> "group",
   group |-> [id |-> id, suiteID |-> suiteID, parentID |-> parentID, name |-> name]]
TestStartEvent(id, suiteID, groupIDs) ==
  [type |-> "testStart",
   test |-> [id |-> id, suiteID |-> suiteID, groupIDs |-> groupIDs]]
AllSuitesEvent == [type |-> "allSuites"]
TestDoneEvent(testID, res) == [type |-> "testDone", testID |-> testID, result |-> res]
MessageEvent(testID, message) == [type |-> "print", testID |-> testID, message |-> message]
TestEvent == [type |-> "test"]
ErrorEvent(testID, error) == [type |-> "error", testID |-> testID, error |-> error]
DoneEvent(success, time) == [type |-> "done", success |-> success, time |-> time]
FutureEvent == [type |-> "debug"]

\* JSON values that are not events: reading `.type` of an object without a
\* type member, of a number or of a string yields undefined.
UntaggedValue(json) == [type |-> "undefined", json |-> json]
UntaggedValues == {UntaggedValue(j) : j \in {"object", "number", "string"}}

GroupIDLists == UNION {[1 .. n -> Ids] : n \in 0 .. MaxGroupIDs}

SuiteEvents == {SuiteEvent(id) : id \in Ids}
GroupEvents ==
  {GroupEvent(id, s, p, n) : id \in Ids, s \in SuiteIDs, p \in Ids \cup {Null}, n \in GroupNames}
TestStartEvents ==
  {TestStartEvent(id, s, gs) : id \in Ids, s \in SuiteIDs, gs \in GroupIDLists}
TestDoneEvents == {TestDoneEvent(t, r) : t \in Ids, r \in Results}
MessageEvents == {MessageEvent(t, m) : t \in Ids, m \in Messages}
ErrorEvents == {ErrorEvent(t, m) : t \in Ids, m \in Messages}
DoneEvents == {DoneEvent(b, t) : b \in BOOLEAN, t \in Times}

(***************************************************************************)
(* Lines of text.  A line either is the JSON text of a value or is not     *)
(* JSON at all; JSON.parse returns the value or throws.                    *)
(***************************************************************************)
JsonLine(value) == <<"json", value>>
MalformedLine == <<"garbage">>

\* The tags of the Event union.
KnownTags ==
  {"start", "suite", "test", "group", "testStart", "print", "testDone",
   "allSuites", "error", "done"}

\* Faulty variant of the decoder: a value whose tag it does not know is
\* rejected.
JSONParseThrows_RejectsUnknownTag(line) ==
  \/ line[1] # "json"
  \/ line[2].type \notin KnownTags \cup {"undefined", "null"}

JSONParseThrows(line) == line[1] # "json"
JSONParse(line) == line[2]

(***************************************************************************)
(* The node table: an object keyed by id.  A missing key reads undefined.  *)
(***************************************************************************)
EmptyTable == [id \in {} |-> Undefined]
Get(table, id) == IF id \in DOMAIN table THEN table[id] ELSE Undefined
\* Faulty variant of the store: the table is replaced instead of extended.
Put_DropOthers(table, id, node) == [k \in {id} |-> node]

Put(table, id, node) ==
  [k \in DOMAIN table \cup {id} |-> IF k = id THEN node ELSE table[k]]
\* Faulty variants of children.push: unshift, and assignment of a new list.
PushChild_Prepend(table, parentId, childId) ==
  [table EXCEPT ![parentId].children = <<childId>> \o @]

PushChild_Replace(table, parentId, childId) ==
  [table EXCEPT ![parentId].children = <<childId>>]

PushChild(table, parentId, childId) ==
  [table EXCEPT ![parentId].children = Append(@, childId)]

\* { ...event, children: [] }: the node is the event, its optional time
\* member included, with an empty child list.
SuiteNode(event) ==
  IF "time" \in DOMAIN event
  THEN [type |-> "suite", suite |-> event.suite, children |-> <<>>, time |-> event.time]
  ELSE [type |-> "suite", suite |-> event.suite, children |-> <<>>]
GroupNode(event) ==
  IF "time" \in DOMAIN event
  THEN [type |-> "group", group |-> event.group, children |-> <<>>, time |-> event.time]
  ELSE [type |-> "group", group |-> event.group, children |-> <<>>]
TestNode(event) ==
  IF "time" \in DOMAIN event
  THEN [type |-> "testStart", test |-> event.test,
        done |-> Undefined, print |-> Undefined, error |-> Undefined,
        time |-> event.time]
  ELSE [type |-> "testStart", test |-> event.test,
        done |-> Undefined, print |-> Undefined, error |-> Undefined]

HasChildren(node) == node.type = "suite" \/ node.type = "group"
Array(items) == [type |-> "array", items |-> items]

OnSuiteEvent(table, event) == Put(table, event.suite.id, SuiteNode(event))

\* Faulty variant of the group handler: a group whose parent is in the
\* table is linked into the parent's child list without being stored.
OnGroupEvent_LinkOnly(table, event) ==
  LET stored == Put(table, event.group.id, GroupNode(event))
  IN  IF event.group.parentID # Null
      THEN LET parent == Get(table, event.group.parentID)
           IN  IF HasChildren(parent)
               THEN PushChild(table, event.group.parentID, event.group.id)
               ELSE stored
      ELSE LET suite == Get(table, event.group.suiteID)
           IN  IF suite.type = "suite"
               THEN PushChild(table, event.group.suiteID, event.group.id)
               ELSE stored

OnGroupEvent(table, event) ==
  LET stored == Put(table, event.group.id, GroupNode(event))
  IN  IF event.group.parentID # Null
      THEN LET parent == Get(stored, event.group.parentID)
           IN  IF HasChildren(parent)
               THEN PushChild(stored, event.group.parentID, event.group.id)
               ELSE stored
      ELSE LET suite == Get(stored, event.group.suiteID)
           IN  IF suite.type = "suite"
               THEN PushChild(stored, event.group.suiteID, event.group.id)
               ELSE stored

\* Faulty variant of the testStart handler: a test under a group is attached
\* to its suite as well.
OnTestStartEvent_SuiteToo(table, event) ==
  LET stored == Put(table, event.test.id, TestNode(event))
      groupIDs == event.test.groupIDs
      suite == Get(stored, event.test.suiteID)
      inSuite == IF suite.type = "suite"
                 THEN PushChild(stored, event.test.suiteID, event.test.id)
                 ELSE stored
  IN  IF Len(groupIDs) > 0
      THEN LET lastGroupId == groupIDs[Len(groupIDs)]
               parent == Get(inSuite, lastGroupId)
           IN  IF HasChildren(parent)
               THEN PushChild(inSuite, lastGroupId, event.test.id)
               ELSE inSuite
      ELSE inSuite

\* Faulty variant of the testStart handler: the test is attached to the first
\* element of groupIDs instead of the last.
OnTestStartEvent_FirstGroup(table, event) ==
  LET stored == Put(table, event.test.id, TestNode(event))
      groupIDs == event.test.groupIDs
  IN  IF Len(groupIDs) > 0
      THEN LET firstGroupId == groupIDs[1]
               parent == Get(stored, firstGroupId)
           IN  IF HasChildren(parent)
               THEN PushChild(stored, firstGroupId, event.test.id)
               ELSE stored
      ELSE LET suite == Get(stored, event.test.suiteID)
           IN  IF suite.type = "suite"
               THEN PushChild(stored, event.test.suiteID, event.test.id)
               ELSE stored

OnTestStartEvent(table, event) ==
  LET stored == Put(table, event.test.id, TestNode(event))
      groupIDs == event.test.groupIDs
  IN  IF Len(groupIDs) > 0
      THEN LET lastGroupId == groupIDs[Len(groupIDs)]
               parent == Get(stored, lastGroupId)
           IN  IF HasChildren(parent)
               THEN PushChild(stored, lastGroupId, event.test.id)
               ELSE stored
      ELSE LET suite == Get(stored, event.test.suiteID)
           IN  IF suite.type = "suite"
               THEN PushChild(stored, event.test.suiteID, event.test.id)
               ELSE stored

\* Faulty variant of the testDone handler: a failure is not recorded.
OnTestDoneEvent_DropsFailure(table, event) ==
  LET testCandidate == Get(table, event.testID)
  IN  IF testCandidate.type = "testStart" /\ event.result # "failure"
      THEN [table EXCEPT ![event.testID].done = event]
      ELSE table

\* Faulty variants of the testDone handler: one keeps the first completion
\* record instead of overwriting it, one attaches to whatever node has the id.
OnTestDoneEvent_KeepFirst(table, event) ==
  LET testCandidate == Get(table, event.testID)
  IN  IF testCandidate.type = "testStart" /\ testCandidate.done = Undefined
      THEN [table EXCEPT ![event.testID].done = event]
      ELSE table

OnTestDoneEvent(table, event) ==
  LET testCandidate == Get(table, event.testID)
  IN  IF testCandidate.type = "testStart"
      THEN [table EXCEPT ![event.testID].done = event]
      ELSE table

\* Faulty variant of the print handler: a print for an id that is not in the
\* table creates a placeholder test node holding the message.
OnPrintEvent_Upsert(table, event) ==
  LET testCandidate == Get(table, event.testID)
  IN  IF testCandidate.type = "testStart"
      THEN LET print == IF testCandidate.print = Undefined
                        THEN <<>>
                        ELSE testCandidate.print.items
           IN  [table EXCEPT ![event.testID].print = Array(Append(print, event))]
      ELSE IF testCandidate = Undefined
      THEN Put(table, event.testID,
               [type |-> "testStart", test |-> Undefined, done |-> Undefined,
                print |-> Array(<<event>>), error |-> Undefined])
      ELSE table

OnPrintEvent(table, event) ==
  LET testCandidate == Get(table, event.testID)
  IN  IF testCandidate.type = "testStart"
      THEN LET print == IF testCandidate.print = Undefined
                        THEN <<>>
                        ELSE testCandidate.print.items
           IN  [table EXCEPT ![event.testID].print = Array(Append(print, event))]
      ELSE table

\* Faulty variant of the error handler: the new record replaces the list.
OnErrorEvent_Replace(table, event) ==
  LET testCandidate == Get(table, event.testID)
  IN  IF testCandidate.type = "testStart"
      THEN [table EXCEPT ![event.testID].error = Array(<<event>>)]
      ELSE table

OnErrorEvent(table, event) ==
  LET testCandidate == Get(table, event.testID)
  IN  IF testCandidate.type = "testStart"
      THEN [table EXCEPT ![event.testID].error =
              IF testCandidate.error = Undefined
              THEN Array(<<event>>)
              ELSE Array(testCandidate.error.items \o <<event>>)]
      ELSE table

\* Faulty variant of the dispatch: a start event starts a new table.
addEventToTrees_StartResets(table, event) ==
  CASE event.type = "start" -> EmptyTable
    [] event.type = "suite" -> OnSuiteEvent(table, event)
    [] event.type = "group" -> OnGroupEvent(table, event)
    [] event.type = "testStart" -> OnTestStartEvent(table, event)
    [] event.type = "testDone" -> OnTestDoneEvent(table, event)
    [] event.type = "print" -> OnPrintEvent(table, event)
    [] event.type = "error" -> OnErrorEvent(table, event)
    [] event.type = "allSuites" -> table
    [] OTHER -> table

addEventToTrees(table, event) ==
  CASE event.type = "start" -> table
    [] event.type = "suite" -> OnSuiteEvent(table, event)
    [] event.type = "group" -> OnGroupEvent(table, event)
    [] event.type = "testStart" -> OnTestStartEvent(table, event)
    [] event.type = "testDone" -> OnTestDoneEvent(table, event)
    [] event.type = "print" -> OnPrintEvent(table, event)
    [] event.type = "error" -> OnErrorEvent(table, event)
    [] event.type = "allSuites" -> table
    [] OTHER -> table

(***************************************************************************)
(* TypeErrors.  Reading a property of null or undefined throws; behind     *)
(* `x && ...` or `x?.` the property is read only when x is neither.        *)
(***************************************************************************)
ReadThrows(value) == value = JsNull \/ value = Undefined

\* Faulty variant of the guards: the property is read whatever x is.
GuardedReadThrows_Unguarded(value) == value = JsNull \/ value = Undefined

GuardedReadThrows(value) ==
  /\ ~(value = JsNull \/ value = Undefined)
  /\ ReadThrows(value)

\* Whether addEventToTrees(table, event) throws instead of returning.
addEventToTreesThrows(table, event) ==
  \/ ReadThrows(event)
  \/ /\ event.type = "group"
     /\ LET stored == Put(table, event.group.id, GroupNode(event))
        IN  IF event.group.parentID # Null
            THEN GuardedReadThrows(Get(stored, event.group.parentID))
            ELSE GuardedReadThrows(Get(stored, event.group.suiteID))
  \/ /\ event.type = "testStart"
     /\ LET stored == Put(table, event.test.id, TestNode(event))
        IN  IF Len(event.test.groupIDs) > 0
            THEN GuardedReadThrows(Get(stored, event.test.groupIDs[Len(event.test.groupIDs)]))
            ELSE GuardedReadThrows(Get(stored, event.test.suiteID))
  \/ /\ event.type \in {"testDone", "print", "error"}
     /\ GuardedReadThrows(Get(table, event.testID))

(***************************************************************************)
(* parseSync / parseAsync: the loop over the lines and the return.         *)
(***************************************************************************)
\* Faulty variant of allEvents.push: only events of the tags the reducer
\* dispatches on are logged.
PushEvent_KnownOnly(log, event) ==
  IF event.type \in {"start", "suite", "group", "testStart", "testDone",
                     "print", "error", "allSuites", "done"}
  THEN Append(log, event)
  ELSE log

PushEvent(log, event) == Append(log, event)

\* The terminal marker of the Map-shaped variant, whose loop is the same but
\* for what it keeps of a done element.
TotalDurationAfter(total, element) ==
  IF element.type = "done" THEN element.time \div 1000 ELSE total

\* The loop as a function of the lines it is given: the locals after the last
\* line, or after the line that threw.
RECURSIVE parseLoop(_)
parseLoop(ls) ==
  IF ls = <<>>
  THEN [allEvents |-> <<>>, table |-> EmptyTable, doneEvent |-> JsNull, threw |-> FALSE]
  ELSE LET before == parseLoop(SubSeq(ls, 1, Len(ls) - 1))
           line == ls[Len(ls)]
       IN  IF before.threw
           THEN before
           ELSE IF \/ JSONParseThrows(line)
                   \/ addEventToTreesThrows(before.table, JSONParse(line))
           THEN [before EXCEPT !.threw = TRUE]
           ELSE LET event == JSONParse(line)
                IN  [allEvents |-> PushEvent(before.allEvents, event),
                     table |-> addEventToTrees(before.table, event),
                     doneEvent |-> IF event.type = "done" THEN event ELSE before.doneEvent,
                     threw |-> FALSE]

\* What a caller gets from the loop over `ls`: an exception or the result.
parse(ls) ==
  LET end == parseLoop(ls)
  IN  IF end.threw
      THEN [threw |-> TRUE, value |-> Undefined]
      ELSE [threw |-> FALSE,
            value |-> [allEvents |-> end.allEvents, table |-> end.table,
                       doneEvent |-> end.doneEvent]]

\* The state of a parse that has read nothing yet.
ParseInit ==
  /\ lines = <<>>
  /\ trees = EmptyTable
  /\ allEvents = <<>>
  /\ doneEvent = JsNull
  /\ totalDurationInSeconds = -1
  /\ pc = "reading"
  /\ result = Undefined
  /\ query = Undefined

Init ==
  /\ ParseInit
  /\ text = <<>>
  /\ outcome = [sync |-> Undefined, async |-> Undefined]
  /\ runs = <<>>

\* The loop still runs and the line source yields another line.
HasNextLine ==
  /\ pc = "reading"
  /\ Len(lines) < MaxLines

\* Faulty variant of the loop: the first done event is kept as the marker.
ParseLine_FirstDoneWins(line) ==
  /\ lines' = Append(lines, line)
  /\ UNCHANGED <<text, outcome, query, runs>>
  /\ IF JSONParseThrows(line) \/ addEventToTreesThrows(trees, JSONParse(line))
     THEN /\ pc' = "thrown"
          /\ UNCHANGED <<trees, allEvents, doneEvent, totalDurationInSeconds, result>>
     ELSE LET event == JSONParse(line)
          IN  /\ trees' = addEventToTrees(trees, event)
              /\ doneEvent' = IF event.type = "done" /\ doneEvent = JsNull
                               THEN event
                               ELSE doneEvent
              /\ totalDurationInSeconds' =
                   TotalDurationAfter(totalDurationInSeconds, event)
              /\ allEvents' = PushEvent(allEvents, event)
              /\ UNCHANGED <<pc, result>>

\* Faulty variant of the loop: a line that fails ends the loop, and what was
\* built from the lines before it is handed to the caller.
ParseLine_PartialResult(line) ==
  /\ lines' = Append(lines, line)
  /\ UNCHANGED <<text, outcome, query, runs>>
  /\ IF JSONParseThrows(line) \/ addEventToTreesThrows(trees, JSONParse(line))
     THEN /\ pc' = "thrown"
          /\ result' = [allEvents |-> allEvents, table |-> trees, doneEvent |-> doneEvent]
          /\ UNCHANGED <<trees, allEvents, doneEvent, totalDurationInSeconds>>
     ELSE LET event == JSONParse(line)
          IN  /\ trees' = addEventToTrees(trees, event)
              /\ doneEvent' = IF event.type = "done" THEN event ELSE doneEvent
              /\ totalDurationInSeconds' =
                   TotalDurationAfter(totalDurationInSeconds, event)
              /\ allEvents' = PushEvent(allEvents, event)
              /\ UNCHANGED <<pc, result>>

\* One iteration of the loop on `line`.
ParseLine(line) ==
  /\ lines' = Append(lines, line)
  /\ UNCHANGED <<text, outcome, query, runs>>
  /\ IF JSONParseThrows(line) \/ addEventToTreesThrows(trees, JSONParse(line))
     THEN /\ pc' = "thrown"
          /\ UNCHANGED <<trees, allEvents, doneEvent, totalDurationInSeconds, result>>
     ELSE LET event == JSONParse(line)
          IN  /\ trees' = addEventToTrees(trees, event)
              /\ doneEvent' = IF event.type = "done" THEN event ELSE doneEvent
              /\ totalDurationInSeconds' =
                   TotalDurationAfter(totalDurationInSeconds, event)
              /\ allEvents' = PushEvent(allEvents, event)
              /\ UNCHANGED <<pc, result>>

ReadStart ==
  /\ HasNextLine
  /\ ParseLine(JsonLine(StartEvent))

ReadSuite ==
  /\ HasNextLine
  /\ \E e \in SuiteEvents : ParseLine(JsonLine(e))

ReadGroup ==
  /\ HasNextLine
  /\ \E e \in GroupEvents : ParseLine(JsonLine(e))

ReadTestStart ==
  /\ HasNextLine
  /\ \E e \in TestStartEvents : ParseLine(JsonLine(e))

ReadTestDone ==
  /\ HasNextLine
  /\ \E e \in TestDoneEvents : ParseLine(JsonLine(e))

ReadPrint ==
  /\ HasNextLine
  /\ \E e \in MessageEvents : ParseLine(JsonLine(e))

ReadError ==
  /\ HasNextLine
  /\ \E e \in ErrorEvents : ParseLine(JsonLine(e))

ReadAllSuites ==
  /\ HasNextLine
  /\ ParseLine(JsonLine(AllSuitesEvent))

ReadDone ==
  /\ HasNextLine
  /\ \E e \in DoneEvents : ParseLine(JsonLine(e))

ReadTest ==
  /\ HasNextLine
  /\ ParseLine(JsonLine(TestEvent))

ReadFuture ==
  /\ HasNextLine
  /\ ParseLine(JsonLine(FutureEvent))

ReadUntagged ==
  /\ HasNextLine
  /\ \E v \in UntaggedValues : ParseLine(JsonLine(v))

ReadNull ==
  /\ HasNextLine
  /\ ParseLine(JsonLine(JsNull))

ReadMalformed ==
  /\ HasNextLine
  /\ ParseLine(MalformedLine)

Return ==
  /\ pc = "reading"
  /\ pc' = "returned"
  /\ result' = [allEvents |-> allEvents, table |-> trees, doneEvent |-> doneEvent]
  /\ UNCHANGED <<lines, trees, allEvents, doneEvent, totalDurationInSeconds>>
  /\ UNCHANGED <<text, outcome, query, runs>>

Next ==
  \/ ReadStart
  \/ ReadSuite
  \/ ReadGroup
  \/ ReadTestStart
  \/ ReadTestDone
  \/ ReadPrint
  \/ ReadError
  \/ ReadAllSuites
  \/ ReadDone
  \/ ReadTest
  \/ ReadFuture
  \/ ReadUntagged
  \/ ReadNull
  \/ ReadMalformed
  \/ Return

Spec == Init /\ [][Next]_vars

(***************************************************************************)
(* The two entry points on a whole text.  A text is a sequence of pieces:  *)
(* a line feed, a carriage return, the JSON text of one value, or text     *)
(* that is not JSON.  parseSync splits a string with split("\n");          *)
(* parseAsync decodes the bytes and pipes them through TextLineStream,     *)
(* which ends a line at "\n" or "\r\n" and drops an empty rest at the end. *)
(***************************************************************************)
LF == <<"lf">>
CR == <<"cr">>

TextEvents == {StartEvent, SuiteEvent(0), DoneEvent(TRUE, 1000)}
TextChars == {LF, CR, MalformedLine} \cup {JsonLine(e) : e \in TextEvents}
Texts == UNION {[1 .. n -> TextChars] : n \in 0 .. MaxChars}

\* The position of the first line feed of t, 0 when there is none.
IndexOfLF(t) ==
  LET at == {i \in 1 .. Len(t) : t[i] = LF}
  IN  IF at = {} THEN 0 ELSE CHOOSE i \in at : \A j \in at : i <= j

\* output.split("\n")
RECURSIVE Split(_)
Split(t) ==
  IF IndexOfLF(t) = 0
  THEN <<t>>
  ELSE <<SubSeq(t, 1, IndexOfLF(t) - 1)>> \o Split(SubSeq(t, IndexOfLF(t) + 1, Len(t)))

\* stream.pipeThrough(new TextDecoderStream()).pipeThrough(new TextLineStream())
RECURSIVE TextLineStream(_)
TextLineStream(t) ==
  IF IndexOfLF(t) = 0
  THEN IF t = <<>> THEN <<>> ELSE <<t>>
  ELSE LET upto == SubSeq(t, 1, IndexOfLF(t) - 1)
           line == IF upto # <<>> /\ upto[Len(upto)] = CR
                   THEN SubSeq(upto, 1, Len(upto) - 1)
                   ELSE upto
       IN  <<line>> \o TextLineStream(SubSeq(t, IndexOfLF(t) + 1, Len(t)))

\* What JSON.parse makes of one line of text: white space around the value
\* is skipped; anything but exactly one JSON value is a syntax error.
LineOf(chars) ==
  LET body == SelectSeq(chars, LAMBDA c : c # CR)
  IN  IF Len(body) = 1 THEN body[1] ELSE MalformedLine

LinesOf(segments) == [i \in 1 .. Len(segments) |-> LineOf(segments[i])]

parseSync(t) == parse(LinesOf(Split(t)))
parseAsync(t) == parse(LinesOf(TextLineStream(t)))

TextInit ==
  /\ ParseInit
  /\ text \in Texts
  /\ outcome = [sync |-> Undefined, async |-> Undefined]
  /\ runs = <<>>

CallParseSync ==
  /\ outcome.sync = Undefined
  /\ outcome' = [outcome EXCEPT !.sync = parseSync(text)]
  /\ UNCHANGED <<lines, trees, allEvents, doneEvent, pc, result,
                 totalDurationInSeconds, text, query, runs>>

CallParseAsync ==
  /\ outcome.async = Undefined
  /\ outcome' = [outcome EXCEPT !.async = parseAsync(text)]
  /\ UNCHANGED <<lines, trees, allEvents, doneEvent, pc, result,
                 totalDurationInSeconds, text, query, runs>>

TextNext ==
  \/ CallParseSync
  \/ CallParseAsync

TextSpec == TextInit /\ [][TextNext]_vars

(***************************************************************************)
(* The query helpers, called on the table of a returned result.  A helper  *)
(* either returns a value or throws.                                       *)
(***************************************************************************)
Returned(fn, arg, value) == [fn |-> fn, arg |-> arg, threw |-> FALSE, value |-> value]
Threw(fn, arg) == [fn |-> fn, arg |-> arg, threw |-> TRUE, value |-> Undefined]

\* test.test.groupIDs.map((id) => table[id])
LookedUp(table, test) ==
  [i \in 1 .. Len(test.test.groupIDs) |-> Get(table, test.test.groupIDs[i])]

\* The filter reads node.type of every looked-up value, undefined included.
parentsOfTestThrows(table, test) ==
  \E i \in 1 .. Len(test.test.groupIDs) : ReadThrows(LookedUp(table, test)[i])

\* Faulty variant of parentsOfTest: the groups come out innermost first.
parentsOfTest_Reversed(table, test) ==
  LET groups == SelectSeq(LookedUp(table, test), LAMBDA node : node.type = "group")
  IN  [i \in 1 .. Len(groups) |-> groups[Len(groups) + 1 - i]]

parentsOfTest(table, test) ==
  SelectSeq(LookedUp(table, test), LAMBDA node : node.type = "group")

directParentOfTest(table, test) ==
  LET parents == parentsOfTest(table, test)
  IN  IF parents = <<>> THEN JsNull ELSE parents[1]

\* The test nodes a caller can take from the returned table.
TestsOfResult ==
  {id \in DOMAIN result.table : result.table[id].type = "testStart"}

\* Faulty variant of the parentsOfTest call: the helper takes the ids off the
\* test's own groupIDs list while it looks them up, and leaves it empty.
CallParentsOfTest_Consuming ==
  /\ pc = "returned"
  /\ \E id \in TestsOfResult :
       /\ query' = IF parentsOfTestThrows(result.table, result.table[id])
                   THEN Threw("parentsOfTest", id)
                   ELSE Returned("parentsOfTest", id,
                                 Array(parentsOfTest(result.table, result.table[id])))
       /\ result' = [result EXCEPT !.table[id].test.groupIDs = <<>>]
       /\ trees' = [trees EXCEPT ![id].test.groupIDs = <<>>]
  /\ UNCHANGED <<lines, allEvents, doneEvent, pc,
                 totalDurationInSeconds, text, outcome, runs>>

CallParentsOfTest ==
  /\ pc = "returned"
  /\ \E id \in TestsOfResult :
       query' = IF parentsOfTestThrows(result.table, result.table[id])
                THEN Threw("parentsOfTest", id)
                ELSE Returned("parentsOfTest", id,
                              Array(parentsOfTest(result.table, result.table[id])))
  /\ UNCHANGED <<lines, trees, allEvents, doneEvent, pc, result,
                 totalDurationInSeconds, text, outcome, runs>>

CallDirectParentOfTest ==
  /\ pc = "returned"
  /\ \E id \in TestsOfResult :
       query' = IF parentsOfTestThrows(result.table, result.table[id])
                THEN Threw("directParentOfTest", id)
                ELSE Returned("directParentOfTest", id,
                              directParentOfTest(result.table, result.table[id]))
  /\ UNCHANGED <<lines, trees, allEvents, doneEvent, pc, result,
                 totalDurationInSeconds, text, outcome, runs>>

QueryNext ==
  \/ Next
  \/ CallParentsOfTest
  \/ CallDirectParentOfTest

QuerySpec == Init /\ [][QueryNext]_vars

(***************************************************************************)
(* Strings the helpers take apart.  A name is the sequence of its          *)
(* characters, so that startsWith, endsWith and slice are what they are in *)
(* the code.                                                               *)
(***************************************************************************)
MaxFragment == 2

Space == " "
NameChars == {"a", Space}
Fragments == UNION {[1 .. n -> NameChars] : n \in 1 .. MaxFragment}

StartsWith(s, prefix) ==
  Len(prefix) <= Len(s) /\ SubSeq(s, 1, Len(prefix)) = prefix
EndsWith(s, suffix) ==
  Len(suffix) <= Len(s) /\ SubSeq(s, Len(s) - Len(suffix) + 1, Len(s)) = suffix
\* s.slice(n) and s.slice(0, -n), for n > 0
Slice(s, n) == SubSeq(s, n + 1, Len(s))
SliceEnd(s, n) == SubSeq(s, 1, Len(s) - n)

(***************************************************************************)
(* Events that carry the optional members the helpers read: the name of a  *)
(* test and the time of an event.  NoTime stands for an event without a    *)
(* time member, NoDone for a test whose testDone line never came.          *)
(***************************************************************************)
NoTime == -2
NoDone == -3

NamedTestStartEvent(id, suiteID, groupIDs, name) ==
  [type |-> "testStart",
   test |-> [id |-> id, suiteID |-> suiteID, name |-> name, groupIDs |-> groupIDs]]

WithTime(event, time) ==
  IF time = NoTime
  THEN event
  ELSE CASE event.type = "suite" ->
              [type |-> "suite", suite |-> event.suite, time |-> time]
         [] event.type = "group" ->
              [type |-> "group", group |-> event.group, time |-> time]
         [] event.type = "testStart" ->
              [type |-> "testStart", test |-> event.test, time |-> time]
         [] event.type = "testDone" ->
              [type |-> "testDone", testID |-> event.testID,
               result |-> event.result, time |-> time]

\* A done event whose time member is missing; DoneEvent(b, Null) is the one
\* whose time member is the JSON null.
DoneEventWithoutTime(success) == [type |-> "done", success |-> success]

(***************************************************************************)
(* The reports the helpers are called on.  Ids are distinct and a group    *)
(* comes before what it holds, as the test runner emits them; the names    *)
(* follow the runner's convention (a group under the root group carries    *)
(* its own fragment, a deeper one its parent's name, a space and its own   *)
(* fragment, a test its innermost group's name, a space and its own        *)
(* fragment).                                                              *)
(***************************************************************************)
Joined(name, fragment) == IF name = <<>> THEN fragment ELSE name \o <<Space>> \o fragment

NameStream(fA, fB, ft) ==
  << JsonLine(SuiteEvent(0)),
     JsonLine(GroupEvent(1, 0, Null, <<>>)),
     JsonLine(GroupEvent(2, 0, 1, fA)),
     JsonLine(GroupEvent(3, 0, 2, Joined(fA, fB))),
     JsonLine(NamedTestStartEvent(4, 0, <<1, 2, 3>>, Joined(Joined(fA, fB), ft))),
     JsonLine(NamedTestStartEvent(5, 0, <<1, 2>>, Joined(fA, ft))),
     JsonLine(NamedTestStartEvent(6, 0, <<1>>, ft)),
     JsonLine(NamedTestStartEvent(7, 0, <<>>, ft)) >>
NameStreams == {NameStream(fA, fB, ft) : fA \in Fragments, fB \in Fragments, ft \in Fragments}

TimeValues == {3072, 3124}
LateTimes == TimeValues \cup {108651}
DoneTimes == {0, 52, 999, 1000, 59999, 60000, 105579, 3600000}

TestDoneLines(testID, time) ==
  IF time = NoDone
  THEN <<>>
  ELSE <<JsonLine(WithTime(TestDoneEvent(testID, "success"), time))>>

\* One suite, its root group and two tests of the root group.
TimeStream(ts, tg, s2, d2, s3, d3) ==
  << JsonLine(WithTime(SuiteEvent(0), ts)),
     JsonLine(WithTime(GroupEvent(1, 0, Null, <<>>), tg)),
     JsonLine(WithTime(NamedTestStartEvent(2, 0, <<1>>, <<"a">>), s2)) >>
  \o TestDoneLines(2, d2)
  \o << JsonLine(WithTime(NamedTestStartEvent(3, 0, <<1>>, <<"b">>), s3)) >>
  \o TestDoneLines(3, d3)
TimeStreams ==
  {TimeStream(ts, tg, s2, d2, s3, d3) :
     ts \in TimeValues \cup {NoTime}, tg \in TimeValues \cup {NoTime},
     s2 \in TimeValues \cup {NoTime}, d2 \in TimeValues \cup {NoTime, NoDone},
     s3 \in TimeValues \cup {NoTime}, d3 \in TimeValues \cup {NoTime, NoDone}}

\* One suite, its root group, a group in it and a test of that group.
DeepStream(ts, tg, tn, s, d) ==
  << JsonLine(WithTime(SuiteEvent(0), ts)),
     JsonLine(WithTime(GroupEvent(1, 0, Null, <<>>), tg)),
     JsonLine(WithTime(GroupEvent(2, 0, 1, <<"a">>), tn)),
     JsonLine(WithTime(NamedTestStartEvent(3, 0, <<1, 2>>, <<"a", Space, "b">>), s)),
     JsonLine(WithTime(TestDoneEvent(3, "success"), d)) >>
DeepStreams ==
  {DeepStream(ts, tg, tn, s, d) :
     ts \in LateTimes, tg \in LateTimes, tn \in LateTimes,
     s \in LateTimes, d \in LateTimes}

\* A report that ends with the done event.
DoneStream(event) == << JsonLine(SuiteEvent(0)), JsonLine(event) >>
DoneStreams ==
  {DoneStream(DoneEvent(TRUE, t)) : t \in DoneTimes \cup {Null}}
    \cup {DoneStream(DoneEventWithoutTime(TRUE))}

HelperStreams == NameStreams \cup TimeStreams \cup DeepStreams \cup DoneStreams

(***************************************************************************)
(* The helpers over a node and the table it is looked up in.               *)
(***************************************************************************)
\* node.children.map((id) => table[id])
ChildrenLookedUp(table, node) ==
  [i \in 1 .. Len(node.children) |-> Get(table, node.children[i])]

\* The filter reads node.type of every looked-up value, undefined included.
childrenOfThrows(table, node) ==
  \E i \in 1 .. Len(node.children) : ReadThrows(ChildrenLookedUp(table, node)[i])

childrenOfSuite(table, suite) ==
  SelectSeq(ChildrenLookedUp(table, suite), LAMBDA node : node.type # "suite")

childrenOfGroup(table, group) ==
  SelectSeq(ChildrenLookedUp(table, group), LAMBDA node : node.type # "suite")

\* Faulty variant of parentOfGroup: the suite is looked up in place of the
\* parent.
parentOfGroup_Suite(table, group) ==
  IF group.group.parentID = Null THEN JsNull ELSE Get(table, group.group.suiteID)

\* A missing parent reads undefined: nothing of it is read here.
parentOfGroup(table, group) ==
  IF group.group.parentID = Null THEN JsNull ELSE Get(table, group.group.parentID)

\* The segment a group contributes, given the group before it in the list.
GroupSegment(groups, i) ==
  LET parentName == IF i > 1 THEN groups[i - 1].group.name ELSE <<>>
      currentName == groups[i].group.name
  IN  IF currentName = <<>>
      THEN <<>>
      ELSE IF parentName # <<>> /\ StartsWith(currentName, parentName \o <<Space>>)
      THEN Slice(currentName, Len(parentName) + 1)
      ELSE currentName

\* The last segment: the test's name without the last group's name.
TestSegment(groups, name) ==
  IF groups = <<>>
  THEN name
  ELSE LET lastGroup == groups[Len(groups)]
       IN  IF lastGroup.group.name = <<>>
           THEN name
           ELSE LET lastGroupName == lastGroup.group.name \o <<Space>>
                    testName == IF EndsWith(name, lastGroupName)
                                THEN SliceEnd(name, Len(lastGroupName))
                                ELSE name
                IN  Slice(testName, Len(lastGroupName))

getSegmentedName(table, node) ==
  LET groups == parentsOfTest(table, node)
  IN  [i \in 1 .. Len(groups) |-> GroupSegment(groups, i)]
        \o <<TestSegment(groups, node.test.name)>>

\* The variant over a test tree that holds its groups (node.parent, filled
\* by the Map-shaped reducer with the groups of groupIDs, in that order):
\* every group gives its whole name and takes its length and one more
\* character off the front of what remains of the test's name.
RECURSIVE RemainingName(_, _)
RemainingName(groups, name) ==
  IF groups = <<>>
  THEN name
  ELSE RemainingName(Tail(groups), Slice(name, Len(Head(groups).group.name) + 1))

getSegmentedNameOfTree(parent, name) ==
  [i \in 1 .. Len(parent) |-> parent[i].group.name]
    \o <<RemainingName(parent, name)>>

(***************************************************************************)
(* Timestamps.  `time?: number`: a node has a time member or has none.     *)
(***************************************************************************)
HasTime(node) == "time" \in DOMAIN node

Min(S) == CHOOSE x \in S : \A y \in S : x <= y
Maximum(S) == CHOOSE x \in S : \A y \in S : x >= y

childrenOf(table, node) ==
  IF node.type = "suite" THEN childrenOfSuite(table, node) ELSE childrenOfGroup(table, node)

\* An exception on the way ("Time is undefined", "Test is not done yet", or
\* the TypeError of a child id without a node) ends the computation: Failed
\* stands for it where a timestamp was to be returned.
Failed == -4

\* Faulty variant of findStartTimestamp: the node's own timestamp, whatever
\* is below it.
findStartTimestamp_OwnTime(table, node) ==
  IF HasTime(node) THEN node.time ELSE Failed

RECURSIVE findStartTimestamp(_, _)
findStartTimestamp(table, node) ==
  IF ~HasTime(node)
  THEN Failed
  ELSE IF node.type = "testStart"
  THEN node.time
  ELSE IF childrenOfThrows(table, node)
  THEN Failed
  ELSE LET children == childrenOf(table, node)
           starts == {findStartTimestamp(table, children[i]) : i \in 1 .. Len(children)}
       IN  IF Failed \in starts THEN Failed ELSE Min({node.time} \cup starts)

\* Faulty variant of findEndTimestamp: a suite or group with children ends
\* when the last of them does, whatever its own timestamp.
RECURSIVE findEndTimestamp_ChildrenOnly(_, _)
findEndTimestamp_ChildrenOnly(table, node) ==
  IF ~HasTime(node)
  THEN Failed
  ELSE IF node.type = "testStart"
  THEN IF node.done = Undefined \/ ~HasTime(node.done)
       THEN Failed
       ELSE node.done.time
  ELSE IF childrenOfThrows(table, node)
  THEN Failed
  ELSE LET children == childrenOf(table, node)
           ends == {findEndTimestamp_ChildrenOnly(table, children[i]) :
                      i \in 1 .. Len(children)}
       IN  IF Failed \in ends
           THEN Failed
           ELSE IF ends = {} THEN node.time ELSE Maximum(ends)

\* Faulty variant of findEndTimestamp: a test that is not done yet ends when
\* it started.
RECURSIVE findEndTimestamp_StartWhenNotDone(_, _)
findEndTimestamp_StartWhenNotDone(table, node) ==
  IF ~HasTime(node)
  THEN Failed
  ELSE IF node.type = "testStart"
  THEN IF node.done = Undefined \/ ~HasTime(node.done)
       THEN node.time
       ELSE node.done.time
  ELSE IF childrenOfThrows(table, node)
  THEN Failed
  ELSE LET children == childrenOf(table, node)
           ends == {findEndTimestamp_StartWhenNotDone(table, children[i]) :
                      i \in 1 .. Len(children)}
       IN  IF Failed \in ends THEN Failed ELSE Maximum({node.time} \cup ends)

RECURSIVE findEndTimestamp(_, _)
findEndTimestamp(table, node) ==
  IF ~HasTime(node)
  THEN Failed
  ELSE IF node.type = "testStart"
  THEN IF node.done = Undefined \/ ~HasTime(node.done)
       THEN Failed
       ELSE node.done.time
  ELSE IF childrenOfThrows(table, node)
  THEN Failed
  ELSE LET children == childrenOf(table, node)
           ends == {findEndTimestamp(table, children[i]) : i \in 1 .. Len(children)}
       IN  IF Failed \in ends THEN Failed ELSE Maximum({node.time} \cup ends)

\* JavaScript's % takes the sign of the dividend.
Remainder(a, b) == IF a >= 0 THEN a % b ELSE 0 - ((0 - a) % b)

\* Faulty variant of the decomposition: the seconds are not reduced below 60.
Decomposition_WholeSeconds(durationInMillis) ==
  [minutes |-> durationInMillis \div 60000,
   seconds |-> durationInMillis \div 1000,
   milliseconds |-> Remainder(durationInMillis, 1000)]

\* Math.floor(ms / 1000 / 60), Math.floor((ms / 1000) % 60), ms % 1000
Decomposition(durationInMillis) ==
  [minutes |-> durationInMillis \div 60000,
   seconds |-> Remainder(durationInMillis, 60000) \div 1000,
   milliseconds |-> Remainder(durationInMillis, 1000)]

durationThrows(table, node) ==
  findStartTimestamp(table, node) = Failed \/ findEndTimestamp(table, node) = Failed

\* Faulty variant of duration: the end timestamp alone is decomposed.
duration_FromZero(table, node) ==
  Decomposition(findEndTimestamp(table, node))

duration(table, node) ==
  Decomposition(findEndTimestamp(table, node) - findStartTimestamp(table, node))

totalDurationThrows(event) ==
  ReadThrows(event) \/ ~HasTime(event) \/ event.time = Null

totalDuration(event) == Decomposition(event.time)

(***************************************************************************)
(* The helpers called on a returned result.  The table a caller hands to   *)
(* childrenOfSuite / childrenOfGroup is the table of the result or the one *)
(* a parse of the same report gave before its last line was written.       *)
(***************************************************************************)
HelperFrame ==
  UNCHANGED <<lines, trees, allEvents, doneEvent, pc, result,
              totalDurationInSeconds, text, outcome, runs>>

NodesOfResult(type) ==
  {id \in DOMAIN result.table : result.table[id].type = type}

TableAfter(k) == parseLoop(SubSeq(lines, 1, k)).table
GivenTables == {TableAfter(k) : k \in {Len(lines) - 1, Len(lines)}}

CallChildrenOfSuite ==
  /\ pc = "returned"
  /\ \E id \in NodesOfResult("suite"), table \in GivenTables :
       LET given == [id |-> id, table |-> table]
       IN  query' = IF childrenOfThrows(given.table, result.table[id])
                    THEN Threw("childrenOfSuite", given)
                    ELSE Returned("childrenOfSuite", given,
                                  Array(childrenOfSuite(given.table, result.table[id])))
  /\ HelperFrame

CallChildrenOfGroup ==
  /\ pc = "returned"
  /\ \E id \in NodesOfResult("group"), table \in GivenTables :
       LET given == [id |-> id, table |-> table]
       IN  query' = IF childrenOfThrows(given.table, result.table[id])
                    THEN Threw("childrenOfGroup", given)
                    ELSE Returned("childrenOfGroup", given,
                                  Array(childrenOfGroup(given.table, result.table[id])))
  /\ HelperFrame

CallParentOfGroup ==
  /\ pc = "returned"
  /\ \E id \in NodesOfResult("group") :
       query' = Returned("parentOfGroup", id,
                         parentOfGroup(result.table, result.table[id]))
  /\ HelperFrame

CallGetSegmentedName ==
  /\ pc = "returned"
  /\ \E id \in NodesOfResult("testStart") :
       query' = IF parentsOfTestThrows(result.table, result.table[id])
                THEN Threw("getSegmentedName", id)
                ELSE Returned("getSegmentedName", id,
                              Array(getSegmentedName(result.table, result.table[id])))
  /\ HelperFrame

\* The tree of a test holds the groups of its groupIDs that were in the
\* table when its testStart was folded (group?.type === "group"); in these
\* reports every group comes before its tests.
ParentOfTree(table, test) ==
  SelectSeq(LookedUp(table, test),
            LAMBDA node : node # Undefined /\ node.type = "group")

CallGetSegmentedNameOfTree ==
  /\ pc = "returned"
  /\ \E id \in NodesOfResult("testStart") :
       query' = Returned("getSegmentedNameOfTree", id,
                         Array(getSegmentedNameOfTree(
                                 ParentOfTree(result.table, result.table[id]),
                                 result.table[id].test.name)))
  /\ HelperFrame

CallDuration ==
  /\ pc = "returned"
  /\ \E id \in DOMAIN result.table :
       query' = IF durationThrows(result.table, result.table[id])
                THEN Threw("duration", id)
                ELSE Returned("duration", id, duration(result.table, result.table[id]))
  /\ HelperFrame

CallTotalDuration ==
  /\ pc = "returned"
  /\ query' = IF totalDurationThrows(result.doneEvent)
              THEN Threw("totalDuration", Null)
              ELSE Returned("totalDuration", Null, totalDuration(result.doneEvent))
  /\ HelperFrame

\* The state in which parseSync has returned the result of a report.
HelperInit ==
  \E ls \in HelperStreams :
    /\ lines = ls
    /\ trees = parseLoop(ls).table
    /\ allEvents = parseLoop(ls).allEvents
    /\ doneEvent = parseLoop(ls).doneEvent
    /\ totalDurationInSeconds = -1
    /\ pc = "returned"
    /\ result = parse(ls).value
    /\ query = Undefined
    /\ text = <<>>
    /\ outcome = [sync |-> Undefined, async |-> Undefined]
    /\ runs = <<>>

HelperNext ==
  \/ CallChildrenOfSuite
  \/ CallChildrenOfGroup
  \/ CallParentOfGroup
  \/ CallParentsOfTest
  \/ CallDirectParentOfTest
  \/ CallGetSegmentedName
  \/ CallGetSegmentedNameOfTree
  \/ CallDuration
  \/ CallTotalDuration

HelperSpec == HelperInit /\ [][HelperNext]_vars

(***************************************************************************)
(* History read off the event log.                                         *)
(***************************************************************************)
Max(S) == CHOOSE x \in S : \A y \in S : y <= x
Last(seq) == seq[Len(seq)]
IsPrefix(s, t) == Len(s) <= Len(t) /\ SubSeq(t, 1, Len(s)) = s

\* The id of the node an event creates, Null for events that create none.
CreatedId(event) ==
  CASE event.type = "suite" -> event.suite.id
    [] event.type = "group" -> event.group.id
    [] event.type = "testStart" -> event.test.id
    [] OTHER -> Null

\* Position in the log of the event that created the node now stored under id.
LastCreate(id) ==
  LET created == {k \in 1 .. Len(allEvents) : CreatedId(allEvents[k]) = id}
  IN  IF created = {} THEN 0 ELSE Max(created)

\* The events of one tag that name test `id`, from log position `from` on.
Since(from, tag, id) ==
  SelectSeq(SubSeq(allEvents, from, Len(allEvents)),
            LAMBDA e : e.type = tag /\ e.testID = id)

TestIds == {id \in DOMAIN trees : trees[id].type = "testStart"}
ParentIds == {id \in DOMAIN trees : HasChildren(trees[id])}

\* A step that folded one more event, and that event.
Folded == Len(allEvents') = Len(allEvents) + 1
Event == Last(allEvents')
TargetsTest(event) == event.type \in {"testDone", "print", "error"}

(***************************************************************************)
(* C1: after a testDone whose testID names a test node in the table, the   *)
(* node's completion record is that event; a later testDone replaces it:   *)
(* at every step the record is the latest testDone processed since the     *)
(* test's testStart (and is absent when there was none).                   *)
(***************************************************************************)
C1_CompletionIsLatestTestDone ==
  \A id \in TestIds :
    LET dones == Since(LastCreate(id) + 1, "testDone", id)
    IN  trees[id].done = IF dones = <<>> THEN Undefined ELSE Last(dones)

C1_Witness ==
  \E id \in TestIds :
    LET dones == Since(LastCreate(id) + 1, "testDone", id)
    IN  /\ Len(dones) = 2
        /\ dones[1] # dones[2]
        /\ trees[id].done = dones[2]

(***************************************************************************)
(* C2: a test node's print list (error list) is, in arrival order, exactly *)
(* the print (error) events carrying its id processed since its testStart; *)
(* it is absent until the first one arrives and afterwards only grows by   *)
(* appending at the end.                                                   *)
(***************************************************************************)
ListIs(field, events) ==
  field = IF events = <<>> THEN Undefined ELSE Array(events)

ItemsOf(field) == IF field = Undefined THEN <<>> ELSE field.items

C2_ListsAreArrivals ==
  \A id \in TestIds :
    /\ ListIs(trees[id].print, Since(LastCreate(id) + 1, "print", id))
    /\ ListIs(trees[id].error, Since(LastCreate(id) + 1, "error", id))

C2_ListsOnlyAppend ==
  \A id \in TestIds :
    (Folded /\ CreatedId(Event) # id) =>
      /\ id \in DOMAIN trees' /\ trees'[id].type = "testStart"
      /\ IsPrefix(ItemsOf(trees[id].print), ItemsOf(trees'[id].print))
      /\ IsPrefix(ItemsOf(trees[id].error), ItemsOf(trees'[id].error))
      /\ (trees[id].print # Undefined => trees'[id].print # Undefined)
      /\ (trees[id].error # Undefined => trees'[id].error # Undefined)

\* C2: the print and error lists are the arrivals since the testStart, in
\* order, absent before the first one, and grow only by appending.
C2_PrintAndErrorLists == [](C2_ListsAreArrivals) /\ [][C2_ListsOnlyAppend]_vars

C2_Witness ==
  \E id \in TestIds :
    /\ trees[id].error # Undefined
    /\ Len(trees[id].error.items) = 2
    /\ trees[id].error.items[1] # trees[id].error.items[2]
    /\ trees[id].print = Undefined

(***************************************************************************)
(* C3: a testDone, print or error event whose testID is not in the table,  *)
(* or names a suite or group node, leaves the whole table unchanged and    *)
(* raises no error; a testStart that arrives later with that id stores a   *)
(* node with no completion record, prints or errors.                       *)
(***************************************************************************)
C3_UnmatchedStep ==
  (Folded /\ TargetsTest(Event) /\ Get(trees, Event.testID).type # "testStart") =>
    (trees' = trees /\ pc' = "reading")

C3_NotRetroactive ==
  (Folded /\ Event.type = "testStart") =>
    LET node == trees'[Event.test.id]
    IN  node.done = Undefined /\ node.print = Undefined /\ node.error = Undefined

\* C3: an unmatched testDone / print / error changes nothing and raises
\* nothing, and a later testStart with that id starts from a bare node.
C3_UnmatchedIsDropped == [][C3_UnmatchedStep /\ C3_NotRetroactive]_vars

C3_Witness ==
  \E i, j \in 1 .. Len(allEvents) :
    /\ i < j
    /\ TargetsTest(allEvents[i])
    /\ allEvents[j].type = "testStart"
    /\ allEvents[j].test.id = allEvents[i].testID
    /\ LastCreate(allEvents[i].testID) = j
    /\ \A k \in 1 .. i : CreatedId(allEvents[k]) # allEvents[i].testID
    /\ trees[allEvents[i].testID] = TestNode(allEvents[j])

(***************************************************************************)
(* C4: on a group event a new group node with an empty child list is       *)
(* stored under the group's id, and the id is appended to exactly one      *)
(* child list: that of the parent at parentID when parentID is non-null    *)
(* and that parent is in the table, or that of the owning suite when       *)
(* parentID is null and the suite is in the table; no other child list     *)
(* changes.  ("Parent" is read as any node with a child list.)             *)
(***************************************************************************)
GroupTarget(group) ==
  IF group.parentID # Null THEN group.parentID ELSE group.suiteID

GroupLinked(group) ==
  IF group.parentID # Null
  THEN HasChildren(Get(trees, group.parentID))
  ELSE Get(trees, group.suiteID).type = "suite"

C4_GroupStep ==
  (Folded /\ Event.type = "group") =>
    LET group == Event.group
    IN  /\ DOMAIN trees' = DOMAIN trees \cup {group.id}
        /\ trees'[group.id] = GroupNode(Event)
        /\ \A q \in DOMAIN trees \ {group.id} :
             trees'[q] = IF GroupLinked(group) /\ q = GroupTarget(group)
                         THEN [trees[q] EXCEPT !.children = Append(@, group.id)]
                         ELSE trees[q]

\* C4: every group event stores a node with an empty child list and appends
\* the id to the one child list named by parentID or, when null, by suiteID.
C4_GroupEventLinksOnce == [][C4_GroupStep]_vars

\* The same statement for the group events that do not name themselves as
\* parent: the only steps on which C4 fails are the self-parent ones.
C4_ExceptSelfParent ==
  [][(Folded /\ Event.type = "group" /\ Event.group.parentID = Event.group.id)
       \/ C4_GroupStep]_vars

(***************************************************************************)
(* C5: on a testStart event a new test node with no completion record,     *)
(* prints or errors is stored under the test's id, and its id is appended  *)
(* to the child list of the group named by the last element of groupIDs if *)
(* that group is in the table; otherwise to the child list of the owning   *)
(* suite if that suite is in the table.                                    *)
(***************************************************************************)
LastOf(groupIDs) == groupIDs[Len(groupIDs)]

\* The child list the test is appended to (Null: none).  With `fallback` the
\* suite is used whenever the last group does not resolve, as claimed;
\* without it only when groupIDs is empty.
C5_Target(test, fallback) ==
  LET suite == IF Get(trees, test.suiteID).type = "suite" THEN test.suiteID ELSE Null
  IN  IF Len(test.groupIDs) = 0
      THEN suite
      ELSE IF HasChildren(Get(trees, LastOf(test.groupIDs)))
           THEN LastOf(test.groupIDs)
           ELSE IF fallback THEN suite ELSE Null

C5_TestStartStep(fallback) ==
  (Folded /\ Event.type = "testStart") =>
    LET test == Event.test
    IN  /\ DOMAIN trees' = DOMAIN trees \cup {test.id}
        /\ trees'[test.id] = TestNode(Event)
        /\ \A q \in DOMAIN trees \ {test.id} :
             trees'[q] = IF q = C5_Target(test, fallback)
                         THEN [trees[q] EXCEPT !.children = Append(@, test.id)]
                         ELSE trees[q]

\* C5: every testStart event stores a bare test node and appends its id to
\* the last group of groupIDs if in the table, otherwise to the owning suite.
C5_TestStartFallsBackToSuite == [][C5_TestStartStep(TRUE)]_vars

\* C5 (amended): the bare test node is stored and the id is appended to the
\* child list of the node named by the last element of groupIDs when groupIDs
\* is non-empty and that node is a suite or group in the table, to no list
\* when it is not; to the owning suite's child list only when groupIDs is
\* empty and the suite is there.
C5_TestStartLinksToLastGroup == [][C5_TestStartStep(FALSE)]_vars

C5_Witness ==
  /\ Len(allEvents) = 3
  /\ allEvents[1].type = "group" /\ allEvents[2].type = "group"
  /\ allEvents[1].group.id # allEvents[2].group.id
  /\ allEvents[3].type = "testStart"
  /\ allEvents[3].test.groupIDs = <<allEvents[1].group.id, allEvents[2].group.id>>
  /\ allEvents[3].test.id \notin {allEvents[1].group.id, allEvents[2].group.id}
  /\ Last(trees[allEvents[2].group.id].children) = allEvents[3].test.id

(***************************************************************************)
(* C6: a group event naming a non-null parentID that is not in the table   *)
(* when the event is processed records no child link for the group and     *)
(* raises no error (the link is not added later either).                   *)
(***************************************************************************)
Occurrences(seq, x) == Cardinality({i \in 1 .. Len(seq) : seq[i] = x})

C6_MissingParentStep ==
  (/\ Folded
   /\ Event.type = "group"
   /\ Event.group.parentID # Null
   /\ Event.group.parentID \notin DOMAIN trees) =>
    /\ pc' = "reading"
    /\ \A q \in DOMAIN trees' :
         HasChildren(trees'[q]) => Occurrences(trees'[q].children, Event.group.id)
                                    = IF q \in ParentIds
                                      THEN Occurrences(trees[q].children, Event.group.id)
                                      ELSE 0

\* C6: a group event whose non-null parentID is not in the table adds the
\* group's id to no child list and raises no error.
C6_MissingParentNeverLinked == [][C6_MissingParentStep]_vars

(***************************************************************************)
(* C7: within every suite's and group's child list the ids are in the      *)
(* arrival order of the group / testStart events that put them there: the  *)
(* list is the sequence of ids of the events, since the node was stored,   *)
(* that attach to it; a testDone event changes no child list.              *)
(***************************************************************************)
Attaches(event, parentId) ==
  CASE event.type = "group" ->
         IF event.group.parentID # Null
         THEN event.group.parentID = parentId
         ELSE event.group.suiteID = parentId /\ trees[parentId].type = "suite"
    [] event.type = "testStart" ->
         IF Len(event.test.groupIDs) > 0
         THEN LastOf(event.test.groupIDs) = parentId
         ELSE event.test.suiteID = parentId /\ trees[parentId].type = "suite"
    [] OTHER -> FALSE

Arrivals(parentId) ==
  LET attached == SelectSeq(SubSeq(allEvents, LastCreate(parentId), Len(allEvents)),
                            LAMBDA e : Attaches(e, parentId))
  IN  [i \in 1 .. Len(attached) |-> CreatedId(attached[i])]

C7_ChildListsAreArrivals ==
  \A p \in ParentIds : trees[p].children = Arrivals(p)

C7_TestDoneStep ==
  (Folded /\ Event.type = "testDone") =>
    \A p \in ParentIds : p \in DOMAIN trees' /\ trees'[p].children = trees[p].children

\* C7: child lists are in arrival order of the creating events, and the
\* arrival of testDone events has no influence on them.
C7_ChildListsInArrivalOrder ==
  [](C7_ChildListsAreArrivals) /\ [][C7_TestDoneStep]_vars

C7_Witness ==
  \E p \in ParentIds :
    /\ trees[p].type = "suite"
    /\ Len(allEvents) = 3
    /\ CreatedId(allEvents[1]) = p
    /\ trees[p].children = <<CreatedId(allEvents[2]), CreatedId(allEvents[3])>>
    /\ CreatedId(allEvents[2]) > CreatedId(allEvents[3])
    /\ CreatedId(allEvents[3]) # p

(***************************************************************************)
(* C8: the table starts empty and its set of ids only grows: an id present *)
(* after some event is present after every later event, and only suite,    *)
(* group and testStart events add ids.                                     *)
(***************************************************************************)
C8_IdsStep ==
  /\ DOMAIN trees \subseteq DOMAIN trees'
  /\ DOMAIN trees' # DOMAIN trees =>
       /\ Folded
       /\ Event.type \in {"suite", "group", "testStart"}
       /\ DOMAIN trees' = DOMAIN trees \cup {CreatedId(Event)}

\* C8: the table starts empty, never loses an id, and gains ids only on
\* suite, group and testStart events.
C8_TableOnlyGrows == (trees = EmptyTable) /\ [][C8_IdsStep]_vars

C8_Witness ==
  /\ DOMAIN trees = Ids
  /\ \E a, b, c \in Ids :
       /\ trees[a].type = "suite"
       /\ trees[b].type = "group"
       /\ trees[c].type = "testStart"
  /\ pc = "returned"

(***************************************************************************)
(* C9: no event removes an id from, or re-orders, an existing child list:  *)
(* across every step the child list stored for each suite or group id      *)
(* changes only by having ids appended at its end.                         *)
(***************************************************************************)
C9_ListKept(id) ==
  /\ id \in DOMAIN trees'
  /\ HasChildren(trees'[id])
  /\ IsPrefix(trees[id].children, trees'[id].children)
  /\ Len(trees'[id].children) <= Len(trees[id].children) + 1

\* C9: on every step every child list changes only by appending ids at
\* its end.
C9_ChildListsOnlyAppend == [][\A id \in ParentIds : C9_ListKept(id)]_vars

\* C9 (amended): the same for every suite or group id that the event does
\* not store anew; an event that re-uses the id replaces the node, and the
\* child list stored under the id starts again.
C9_ChildListsOnlyAppendUnlessReplaced ==
  [][\A id \in ParentIds :
       (Folded /\ CreatedId(Event) = id) \/ C9_ListKept(id)]_vars

C9_Witness ==
  \E p \in ParentIds :
    /\ trees[p].type = "group"
    /\ Len(trees[p].children) = 2
    /\ p \notin {trees[p].children[1], trees[p].children[2]}
    /\ trees[p].children[1] < trees[p].children[2]

(***************************************************************************)
(* C10: after k lines have been processed the event log holds exactly k    *)
(* entries and entry i is the decoded event of line i, for every tag.      *)
(***************************************************************************)
Decoded == IF pc = "thrown" THEN Len(lines) - 1 ELSE Len(lines)

\* C10: the log has one entry per processed line, entry i being the decoded
\* event of line i.
C10_LogMirrorsInput ==
  /\ Len(allEvents) = Decoded
  /\ \A i \in 1 .. Decoded :
       ~JSONParseThrows(lines[i]) /\ allEvents[i] = JSONParse(lines[i])

C10_Witness ==
  /\ Len(allEvents) = MaxLines
  /\ trees = EmptyTable
  /\ \E i, j, k \in 1 .. Len(allEvents) :
       /\ allEvents[i].type = "debug"
       /\ allEvents[j].type = "test"
       /\ allEvents[k].type = "testDone"

(***************************************************************************)
(* Steps read off the line source: a step that pulled one more line, the   *)
(* line, and the value it decodes to.                                      *)
(***************************************************************************)
Pulled == Len(lines') = Len(lines) + 1
Line == Last(lines')
PulledValue == Pulled /\ ~JSONParseThrows(Line)
Value == JSONParse(Line)

(***************************************************************************)
(* C11: a start, allSuites or done event leaves the node table unchanged;  *)
(* it is appended to the event log, and a done event becomes the terminal  *)
(* marker while start and allSuites leave the marker alone.                *)
(***************************************************************************)
C11_Step ==
  (PulledValue /\ Value.type \in {"start", "allSuites", "done"}) =>
    /\ trees' = trees
    /\ allEvents' = Append(allEvents, Value)
    /\ doneEvent' = IF Value.type = "done" THEN Value ELSE doneEvent
    /\ pc' = "reading"

\* C11: start, allSuites and done events change nothing in the table; they
\* are logged, and done also sets the terminal marker.
C11_MetadataEventsLeaveTable == [][C11_Step]_vars

C11_Witness ==
  /\ Len(allEvents) = 3
  /\ allEvents[1].type = "suite"
  /\ allEvents[2].type = "done"
  /\ allEvents[3].type \in {"start", "allSuites"}
  /\ trees = OnSuiteEvent(EmptyTable, allEvents[1])
  /\ doneEvent = allEvents[2]

(***************************************************************************)
(* C12: a suite, group or testStart event whose id is already in the table *)
(* replaces the entry: afterwards the id holds a fresh node of the event's *)
(* kind, with an empty child list (suite, group) or no completion record,  *)
(* prints or errors (test), and the table has as many entries as before.   *)
(***************************************************************************)
FreshNode(event) ==
  CASE event.type = "suite" -> SuiteNode(event)
    [] event.type = "group" -> GroupNode(event)
    [] event.type = "testStart" -> TestNode(event)

C12_Step ==
  (PulledValue /\ CreatedId(Value) \in DOMAIN trees) =>
    /\ pc' = "reading"
    /\ trees'[CreatedId(Value)] = FreshNode(Value)
    /\ Cardinality(DOMAIN trees') = Cardinality(DOMAIN trees)

\* C12: an event that re-uses an id overwrites the entry with a fresh node
\* of its own kind and adds no entry.
C12_ReusedIdOverwrites == [][C12_Step]_vars

\* The same statement for the events that are not groups naming themselves
\* as parent: those are the only steps on which C12 fails.
C12_ExceptSelfParent ==
  [][(PulledValue /\ Value.type = "group" /\ Value.group.parentID = Value.group.id)
       \/ C12_Step]_vars

(***************************************************************************)
(* C13: when decoding a line fails the parse ends by throwing and the      *)
(* caller receives no result: nothing of the table, log or marker built    *)
(* from the earlier lines is returned, and nothing is returned later.      *)
(***************************************************************************)
C13_FailureStep ==
  /\ (Pulled /\ JSONParseThrows(Line)) => (pc' = "thrown" /\ result' = Undefined)
  /\ pc = "thrown" => (pc' = "thrown" /\ result' = Undefined)

\* C13: a line that fails to decode makes the parse throw, and a parse that
\* has thrown has returned nothing and never returns anything.
C13_FailureReturnsNothing ==
  [](pc = "thrown" => result = Undefined) /\ [][C13_FailureStep]_vars

C13_Witness ==
  /\ pc = "thrown"
  /\ JSONParseThrows(Last(lines))
  /\ Len(allEvents) = MaxLines - 1
  /\ trees # EmptyTable
  /\ doneEvent # JsNull
  /\ result = Undefined

(***************************************************************************)
(* C14: a line that is a JSON object with a tag outside the known tags     *)
(* never makes the parse fail: its value is appended to the log in its     *)
(* position and the table is unchanged.                                    *)
(***************************************************************************)
Tagged(value) == value.type \notin {"undefined", "null"}

C14_Step ==
  (Pulled /\ Line[1] = "json" /\ Tagged(Line[2]) /\ Line[2].type \notin KnownTags) =>
    /\ pc' = "reading"
    /\ allEvents' = Append(allEvents, Line[2])
    /\ trees' = trees

\* C14: an unknown tag is decoded, logged in its position, and has no
\* effect on the table; the parse goes on.
C14_UnknownTagIsLogged == [][C14_Step]_vars

C14_Witness ==
  /\ pc = "returned"
  /\ Len(allEvents) = 3
  /\ allEvents[1].type = "suite"
  /\ allEvents[2] = FutureEvent
  /\ allEvents[3].type = "testStart"
  /\ allEvents[3].test.id # allEvents[1].suite.id
  /\ result.allEvents = allEvents
  /\ result.table = OnTestStartEvent(OnSuiteEvent(EmptyTable, allEvents[1]), allEvents[3])
  /\ result.table[allEvents[1].suite.id].children = <<allEvents[3].test.id>>

(***************************************************************************)
(* C15: a line that is valid JSON but carries no tag (an object without a  *)
(* type member, a number, a string) makes decoding fail and aborts the     *)
(* parse; the value never enters the event log.                            *)
(***************************************************************************)
C15_Step ==
  (PulledValue /\ Value.type = "undefined") =>
    /\ pc' = "thrown"
    /\ allEvents' = allEvents

\* C15: an untagged JSON value is rejected: the parse throws and the log
\* does not receive the value.
C15_UntaggedIsRejected == [][C15_Step]_vars

(***************************************************************************)
(* C16: the reducer raises no error on any event that carries the payload  *)
(* of its tag, whatever ids it names (never introduced, re-used across     *)
(* node kinds, a group naming itself as parent) and whatever came before.  *)
(***************************************************************************)
WellFormedEvents ==
  {StartEvent, AllSuitesEvent, TestEvent} \cup SuiteEvents \cup GroupEvents
    \cup TestStartEvents \cup TestDoneEvents \cup MessageEvents \cup ErrorEvents
    \cup DoneEvents

C16_Step ==
  (PulledValue /\ Value \in WellFormedEvents) =>
    /\ ~addEventToTreesThrows(trees, Value)
    /\ pc' = "reading"
    /\ allEvents' = Append(allEvents, Value)

\* C16: every event with its payload is processed without an error,
\* whatever the table holds.
C16_ReducerNeverThrows == [][C16_Step]_vars

C16_Witness ==
  /\ pc = "reading"
  /\ Len(allEvents) = 3
  /\ allEvents[1].type = "group"
  /\ allEvents[1].group.parentID = allEvents[1].group.id
  /\ allEvents[2].type = "testStart"
  /\ allEvents[2].test.id = allEvents[1].group.id
  /\ Len(allEvents[2].test.groupIDs) = 1
  /\ allEvents[2].test.groupIDs[1] \notin DOMAIN trees
  /\ allEvents[3].type = "testDone"
  /\ allEvents[3].testID \notin DOMAIN trees

(***************************************************************************)
(* C18: the terminal marker is the most recently processed done event;     *)
(* events that arrive after a done event are folded into the table and the *)
(* log like any other; with no done event the marker is absent: doneEvent  *)
(* is null and totalDurationInSeconds of the Map-shaped variant is -1.     *)
(***************************************************************************)
C18_MarkerIsLastDone ==
  LET dones == {k \in 1 .. Len(allEvents) : allEvents[k].type = "done"}
  IN  /\ doneEvent = IF dones = {} THEN JsNull ELSE allEvents[Max(dones)]
      /\ totalDurationInSeconds =
           IF dones = {} THEN -1 ELSE allEvents[Max(dones)].time \div 1000
      /\ pc = "returned" => result.doneEvent = doneEvent

C18_AfterDoneStep ==
  (PulledValue /\ doneEvent # JsNull /\ ~addEventToTreesThrows(trees, Value)) =>
    /\ pc' = "reading"
    /\ trees' = addEventToTrees(trees, Value)
    /\ allEvents' = Append(allEvents, Value)

\* C18: the marker is the last done event processed (null / -1 when there
\* was none), and events after a done event are still folded and logged.
C18_TerminalMarker == [](C18_MarkerIsLastDone) /\ [][C18_AfterDoneStep]_vars

C18_Witness ==
  /\ pc = "returned"
  /\ Len(allEvents) = 3
  /\ allEvents[1].type = "done"
  /\ allEvents[2].type = "done"
  /\ allEvents[1].time # allEvents[2].time
  /\ allEvents[3].type = "suite"
  /\ result.doneEvent = allEvents[2]
  /\ totalDurationInSeconds = allEvents[2].time \div 1000
  /\ result.table = OnSuiteEvent(EmptyTable, allEvents[3])

\* The loop as a function of the lines agrees with the loop taken one
\* iteration at a time.
LoopIsParseLoop ==
  parseLoop(lines) = [allEvents |-> allEvents, table |-> trees,
                      doneEvent |-> doneEvent, threw |-> pc = "thrown"]

(***************************************************************************)
(* C17: on every text, also one whose last line ends with a line feed,     *)
(* parseSync on the string and parseAsync on its bytes either both throw   *)
(* or return equal table, event log and terminal marker.                   *)
(***************************************************************************)
BothCalled == outcome.sync # Undefined /\ outcome.async # Undefined

\* C17: parseSync and parseAsync agree on every text.
C17_EntryPointsAgree == BothCalled => outcome.sync = outcome.async

\* The two do agree on every text that does not end with a line feed and is
\* not empty: the line sources differ only in the empty rest at the end.
C17_AgreeUnlessEmptyRest ==
  (BothCalled /\ text # <<>> /\ text[Len(text)] # LF) =>
    outcome.sync = outcome.async

\* The text of one event followed by a line feed: parseSync throws on the
\* empty string after the line feed, parseAsync returns the one event.
C17_Disagree ==
  /\ BothCalled
  /\ text = <<JsonLine(StartEvent), LF>>
  /\ outcome.sync.threw
  /\ ~outcome.async.threw
  /\ outcome.async.value.allEvents = <<StartEvent>>

(***************************************************************************)
(* C19: what parentsOfTest returns holds only group nodes, one for each    *)
(* position of the test's groupIDs whose id resolves to a group, in the    *)
(* order of groupIDs.                                                      *)
(***************************************************************************)
\* The positions of groupIDs that resolve to a group, and the k-th of them.
GroupPositions(table, test) ==
  {i \in 1 .. Len(test.test.groupIDs) :
     Get(table, test.test.groupIDs[i]).type = "group"}

NthPosition(positions, k) ==
  CHOOSE i \in positions : Cardinality({j \in positions : j <= i}) = k

\* C19: parentsOfTest returns the group nodes named by groupIDs, one per
\* position that resolves to a group, in groupIDs order.
C19_ParentsInGroupIDsOrder ==
  (query # Undefined /\ query.fn = "parentsOfTest" /\ ~query.threw) =>
    LET test == result.table[query.arg]
        positions == GroupPositions(result.table, test)
        parents == query.value.items
    IN  /\ Len(parents) = Cardinality(positions)
        /\ \A k \in 1 .. Len(parents) :
             /\ parents[k].type = "group"
             /\ parents[k] =
                  result.table[test.test.groupIDs[NthPosition(positions, k)]]

C19_Witness ==
  /\ query # Undefined
  /\ query.fn = "parentsOfTest"
  /\ ~query.threw
  /\ Len(query.value.items) = 2
  /\ query.value.items[1].group.id > query.value.items[2].group.id
  /\ result.table[query.arg].test.groupIDs =
       <<query.value.items[1].group.id, query.value.items[2].group.id>>

(***************************************************************************)
(* C20: an id of groupIDs that resolves to no node of the table is left    *)
(* out: parentsOfTest returns the groups that do resolve and raises no     *)
(* error, and neither does directParentOfTest, which is built on it.       *)
(***************************************************************************)
C20_MissingIdsAreFiltered ==
  (query # Undefined /\ query.fn \in {"parentsOfTest", "directParentOfTest"}) =>
    ~query.threw

(***************************************************************************)
(* C21: childrenOfSuite and childrenOfGroup return the nodes of the ids of *)
(* the node's child list, in child-list order, and leave out an id that    *)
(* resolves to no node of the given table: such an id is treated as        *)
(* absent and raises no error.                                             *)
(***************************************************************************)
Resolved(table, node) ==
  SelectSeq(ChildrenLookedUp(table, node), LAMBDA child : child # Undefined)

ChildrenCalled ==
  query # Undefined /\ query.fn \in {"childrenOfSuite", "childrenOfGroup"}

C21_ChildrenLeaveOutUnresolved ==
  ChildrenCalled =>
    /\ ~query.threw
    /\ query.value = Array(Resolved(query.arg.table, result.table[query.arg.id]))

\* What the code does: the nodes in child-list order when every id of the
\* child list resolves, an exception when one does not.
C21_ChildrenInOrderOrThrow ==
  ChildrenCalled =>
    LET node == result.table[query.arg.id]
        looked == ChildrenLookedUp(query.arg.table, node)
    IN  IF \E i \in 1 .. Len(looked) : looked[i] = Undefined
        THEN query.threw
        ELSE ~query.threw /\ query.value = Array(looked)

C21_TwoChildrenReturned ==
  /\ ChildrenCalled
  /\ ~query.threw
  /\ Len(query.value.items) = 2

(***************************************************************************)
(* C22: directParentOfTest returns the first group of the test's resolved  *)
(* ancestor list (the first id of groupIDs that resolves to a group gives  *)
(* it), and returns null exactly when the test has no resolved ancestor    *)
(* group.                                                                  *)
(***************************************************************************)
FirstResolvedGroup(table, test) ==
  LET positions == GroupPositions(table, test)
  IN  IF positions = {}
      THEN JsNull
      ELSE table[test.test.groupIDs[Min(positions)]]

DirectParentCalled == query # Undefined /\ query.fn = "directParentOfTest"

C22_FirstResolvedGroupOrNull ==
  DirectParentCalled =>
    /\ ~query.threw
    /\ query.value = FirstResolvedGroup(result.table, result.table[query.arg])

\* What the code does: the first resolved group or null whenever every id of
\* groupIDs has a node, an exception otherwise.
C22_FirstGroupOrThrow ==
  DirectParentCalled =>
    LET test == result.table[query.arg]
    IN  IF \E i \in 1 .. Len(test.test.groupIDs) :
             test.test.groupIDs[i] \notin DOMAIN result.table
        THEN query.threw
        ELSE /\ ~query.threw
             /\ query.value = FirstResolvedGroup(result.table, test)

C22_FirstOfTwoReturned ==
  /\ DirectParentCalled
  /\ ~query.threw
  /\ Cardinality(GroupPositions(result.table, result.table[query.arg])) = 2
  /\ query.value.type = "group"

(***************************************************************************)
(* C23: the group reported as a test's direct parent is the group the      *)
(* reducer attached the test to: after any event sequence with distinct    *)
(* ids in which groups arrive before their tests, for every test t for     *)
(* which directParentOfTest returns a group g, t's id is in g's child      *)
(* list.                                                                   *)
(***************************************************************************)
DistinctIds ==
  \A i \in 1 .. Len(allEvents), j \in 1 .. Len(allEvents) :
    (i < j /\ CreatedId(allEvents[i]) # Null) =>
      CreatedId(allEvents[i]) # CreatedId(allEvents[j])

GroupsBeforeTests ==
  \A j \in 1 .. Len(allEvents) :
    allEvents[j].type = "testStart" =>
      \A k \in 1 .. Len(allEvents[j].test.groupIDs) :
        \E i \in 1 .. j - 1 :
          /\ allEvents[i].type = "group"
          /\ allEvents[i].group.id = allEvents[j].test.groupIDs[k]

InChildList(id, parent) ==
  \E i \in 1 .. Len(parent.children) : parent.children[i] = id

C23_DirectParentHoldsTest ==
  ( /\ DirectParentCalled
    /\ ~query.threw
    /\ query.value.type = "group"
    /\ DistinctIds
    /\ GroupsBeforeTests ) =>
    InChildList(query.arg, query.value)

\* What the code does: the reducer attached the test to the group named last
\* in groupIDs, and the helper reports the group named first.
C23_LastGroupHoldsTest ==
  ( /\ DirectParentCalled
    /\ ~query.threw
    /\ query.value.type = "group"
    /\ DistinctIds
    /\ GroupsBeforeTests ) =>
    LET groupIDs == result.table[query.arg].test.groupIDs
    IN  /\ query.value = result.table[groupIDs[1]]
        /\ InChildList(query.arg, result.table[groupIDs[Len(groupIDs)]])

(***************************************************************************)
(* C24: the segmented name round-trips.  For every test whose full name    *)
(* and ancestor group names follow the producer's convention, whatever the *)
(* own fragments (with spaces, repeating a group's name), joining the      *)
(* non-empty segments of getSegmentedName with single spaces gives back    *)
(* the test's full name.                                                   *)
(***************************************************************************)
RECURSIVE JoinSegments(_)
JoinSegments(segments) ==
  IF segments = <<>>
  THEN <<>>
  ELSE LET rest == JoinSegments(Tail(segments))
       IN  IF Head(segments) = <<>> THEN rest
           ELSE IF rest = <<>> THEN Head(segments)
           ELSE Head(segments) \o <<Space>> \o rest

SegmentedNameCalled == query # Undefined /\ query.fn = "getSegmentedName"

C24_SegmentsRejoinToFullName ==
  (SegmentedNameCalled /\ ~query.threw) =>
    JoinSegments(query.value.items) = result.table[query.arg].test.name

\* The test's own fragment ends with its innermost group's name and a space.
EndsWithGroupName(table, test) ==
  LET groups == parentsOfTest(table, test)
  IN  /\ groups # <<>>
      /\ groups[Len(groups)].group.name # <<>>
      /\ EndsWith(test.test.name, groups[Len(groups)].group.name \o <<Space>>)

\* What the code does: the round trip holds unless the full name ends with
\* the innermost group's name and a space.
C24_RejoinUnlessEndsWithGroupName ==
  ( /\ SegmentedNameCalled
    /\ ~query.threw
    /\ ~EndsWithGroupName(result.table, result.table[query.arg]) ) =>
    JoinSegments(query.value.items) = result.table[query.arg].test.name

(***************************************************************************)
(* C25: getSegmentedName returns one segment per ancestor group followed   *)
(* by one segment for the test.  The empty root group gives an empty       *)
(* string, a nested group its name with its parent's name and the          *)
(* separating space peeled off, and the last segment is the test's full    *)
(* name with the innermost group's name and the separating space peeled    *)
(* off; a test without ancestor groups gives the single segment of its     *)
(* full name.                                                              *)
(***************************************************************************)
Peeled(name, outerName) ==
  IF outerName = <<>> THEN name ELSE Slice(name, Len(outerName) + 1)

OwnSegment(table, group) ==
  IF group.group.parentID = Null
  THEN group.group.name
  ELSE Peeled(group.group.name, table[group.group.parentID].group.name)

ExpectedSegments(table, test) ==
  LET positions == GroupPositions(table, test)
      ancestor(k) == table[test.test.groupIDs[NthPosition(positions, k)]]
      count == Cardinality(positions)
  IN  [k \in 1 .. count |-> OwnSegment(table, ancestor(k))]
        \o << IF count = 0
              THEN test.test.name
              ELSE Peeled(test.test.name, ancestor(count).group.name) >>

C25_OneSegmentPerAncestorAndTest ==
  ( /\ query # Undefined
    /\ query.fn \in {"getSegmentedName", "getSegmentedNameOfTree"}
    /\ ~query.threw ) =>
    query.value.items = ExpectedSegments(result.table, result.table[query.arg])

\* What the code of the table variant does: these are the segments unless
\* the full name ends with the innermost group's name and a space.
C25_SegmentsUnlessEndsWithGroupName ==
  ( /\ SegmentedNameCalled
    /\ ~query.threw
    /\ ~EndsWithGroupName(result.table, result.table[query.arg]) ) =>
    query.value.items = ExpectedSegments(result.table, result.table[query.arg])

\* The variant over a test tree agrees on tests without a group only.
C25_TreeVariantWithoutGroups ==
  ( /\ query # Undefined
    /\ query.fn = "getSegmentedNameOfTree"
    /\ result.table[query.arg].test.groupIDs = <<>> ) =>
    query.value.items = ExpectedSegments(result.table, result.table[query.arg])

(***************************************************************************)
(* C26: for a test node whose start timestamp s and completion timestamp d *)
(* are both present, duration returns the decomposition of d - s           *)
(* milliseconds into minutes, seconds and milliseconds (an elapsed time:   *)
(* d is not before s).                                                     *)
(***************************************************************************)
DurationCalled == query # Undefined /\ query.fn = "duration"

\* The one way to write an elapsed time as minutes, seconds below 60 and
\* milliseconds below 1000.
IsDecompositionOf(value, elapsed) ==
  /\ value.minutes * 60000 + value.seconds * 1000 + value.milliseconds = elapsed
  /\ value.seconds \in 0 .. 59
  /\ value.milliseconds \in 0 .. 999

Completed(node) ==
  /\ node.type = "testStart"
  /\ HasTime(node)
  /\ node.done # Undefined
  /\ HasTime(node.done)

C26_ShortTest ==
  /\ DurationCalled
  /\ Completed(result.table[query.arg])
  /\ result.table[query.arg].time = 3072
  /\ result.table[query.arg].done.time = 3124
  /\ query.value = [minutes |-> 0, seconds |-> 0, milliseconds |-> 52]

(***************************************************************************)
(* C27: for a group or suite node, duration is the decomposition of        *)
(* (latest end) - (earliest start), where earliest start is the minimum of *)
(* the node's own timestamp and the start timestamps of all its            *)
(* descendants, and latest end is the maximum of the node's own timestamp  *)
(* and the completion timestamps of all descendant tests.                  *)
(***************************************************************************)
\* The ids reached from `ids` through child lists, `ids` included.
RECURSIVE Below(_, _, _)
Below(table, ids, steps) ==
  IF steps = 0
  THEN ids
  ELSE Below(table,
             ids \cup {child \in DOMAIN table :
                         \E id \in ids :
                           /\ HasChildren(table[id])
                           /\ InChildList(child, table[id])},
             steps - 1)

Subtree(table, id) == Below(table, {id}, Cardinality(DOMAIN table))
Descendants(table, id) == Subtree(table, id) \ {id}

\* Every timestamp duration needs in the subtree is there.
AllTimestamped(table, id) ==
  \A j \in Subtree(table, id) :
    /\ HasTime(table[j])
    /\ table[j].type = "testStart" => Completed(table[j])

EarliestStart(table, id) == Min({table[j].time : j \in Subtree(table, id)})

CompletionTimes(table, id) ==
  {table[j].done.time : j \in {d \in Descendants(table, id) : table[d].type = "testStart"}}

GroupTimes(table, id) ==
  {table[j].time : j \in {d \in Descendants(table, id) : table[d].type = "group"}}

ParentDurationCalled ==
  /\ DurationCalled
  /\ HasChildren(result.table[query.arg])
  /\ AllTimestamped(result.table, query.arg)

C27_LatestEndOverTests ==
  ParentDurationCalled =>
    /\ ~query.threw
    /\ IsDecompositionOf(
         query.value,
         Maximum({result.table[query.arg].time}
                   \cup CompletionTimes(result.table, query.arg))
           - EarliestStart(result.table, query.arg))

\* C27 as amended: the latest end also takes the own timestamps of the
\* descendant groups.
C27_LatestEndOverTestsAndGroups ==
  ParentDurationCalled =>
    /\ ~query.threw
    /\ IsDecompositionOf(
         query.value,
         Maximum({result.table[query.arg].time}
                   \cup GroupTimes(result.table, query.arg)
                   \cup CompletionTimes(result.table, query.arg))
           - EarliestStart(result.table, query.arg))

C27_Witness ==
  /\ ParentDurationCalled
  /\ result.table[query.arg].type = "suite"
  /\ result.table[query.arg].time = 3124
  /\ Cardinality(Descendants(result.table, query.arg)) = 3
  /\ GroupTimes(result.table, query.arg) = {3124}
  /\ query.value = [minutes |-> 1, seconds |-> 45, milliseconds |-> 579]

(***************************************************************************)
(* C28: duration fails, instead of returning a value, whenever a required  *)
(* timestamp is absent anywhere in the subtree: the node's own timestamp,  *)
(* the timestamp of a descendant, or the completion record or completion   *)
(* timestamp of a descendant test.                                         *)
(***************************************************************************)
C28_MissingTimestampFails ==
  (DurationCalled /\ ~AllTimestamped(result.table, query.arg)) => query.threw

\* A suite with its own timestamp, over a test that never got its testDone.
C28_Witness ==
  /\ DurationCalled
  /\ query.threw
  /\ result.table[query.arg].type = "suite"
  /\ \A j \in Subtree(result.table, query.arg) : HasTime(result.table[j])
  /\ \E j \in Descendants(result.table, query.arg) :
       /\ result.table[j].type = "testStart"
       /\ result.table[j].done = Undefined

\* Each kind of absence alone makes the call fail.
C28_OwnTimestampMissing ==
  /\ DurationCalled
  /\ query.threw
  /\ ~HasTime(result.table[query.arg])
  /\ \A j \in Descendants(result.table, query.arg) :
       /\ HasTime(result.table[j])
       /\ result.table[j].type = "testStart" => Completed(result.table[j])

C28_CompletionTimestampMissing ==
  /\ DurationCalled
  /\ query.threw
  /\ \A j \in Subtree(result.table, query.arg) : HasTime(result.table[j])
  /\ \A j \in Subtree(result.table, query.arg) :
       result.table[j].type = "testStart" => result.table[j].done # Undefined

(***************************************************************************)
(* C29: for a done event whose elapsed time T is a non-negative integer    *)
(* number of milliseconds, totalDuration returns minutes = floor(T/60000), *)
(* seconds = floor(T/1000) mod 60 and milliseconds = T mod 1000, so that   *)
(* minutes*60000 + seconds*1000 + milliseconds = T with seconds below 60   *)
(* and milliseconds below 1000; when the time value is absent it fails.    *)
(***************************************************************************)
TotalDurationCalled ==
  /\ query # Undefined
  /\ query.fn = "totalDuration"
  /\ result.doneEvent # JsNull

TimeIsAbsent(event) == ~HasTime(event) \/ event.time = Null

C29_TotalDurationDecomposes ==
  TotalDurationCalled =>
    IF TimeIsAbsent(result.doneEvent)
    THEN query.threw
    ELSE LET T == result.doneEvent.time
         IN  /\ ~query.threw
             /\ query.value.minutes = T \div 60000
             /\ query.value.seconds = (T \div 1000) % 60
             /\ query.value.milliseconds = T % 1000
             /\ IsDecompositionOf(query.value, T)

C29_Witness ==
  /\ TotalDurationCalled
  /\ HasTime(result.doneEvent)
  /\ result.doneEvent.time = 105579
  /\ query.value = [minutes |-> 1, seconds |-> 45, milliseconds |-> 579]

C29_AbsentTimeFails ==
  /\ TotalDurationCalled
  /\ ~HasTime(result.doneEvent)
  /\ query.threw

(***************************************************************************)
(* C30: the query helpers are read-only.  A call leaves the table and      *)
(* every node unchanged whether it returns or fails, so that calling       *)
(* parentsOfTest (or any of them) again on the same table and node gives   *)
(* the same outcome.                                                       *)
(***************************************************************************)
HelperCall == pc = "returned" /\ pc' = "returned" /\ query' # Undefined

C30_Step ==
  HelperCall =>
    /\ result' = result
    /\ trees' = trees
    /\ allEvents' = allEvents
    /\ ( /\ query # Undefined
         /\ query'.fn = query.fn
         /\ query'.arg = query.arg ) => query' = query

C30_FailedCallLeavesTable ==
  /\ query # Undefined
  /\ query.threw
  /\ result = parse(lines).value
  /\ trees = result.table

(***************************************************************************)
(* C31: in the table a parse returns, the test nodes whose completion      *)
(* result is success, error and failure partition the test nodes: every    *)
(* test node has exactly one of the three classifications and the three    *)
(* counts sum to the number of test nodes.                                 *)
(***************************************************************************)
ReturnedTests ==
  {id \in DOMAIN result.table : result.table[id].type = "testStart"}

Classified(res) ==
  {id \in ReturnedTests :
     /\ result.table[id].done # Undefined
     /\ result.table[id].done.result = res}

ClassCount ==
  Cardinality(Classified("success")) + Cardinality(Classified("error"))
    + Cardinality(Classified("failure"))

C31_ResultsPartitionTests ==
  pc = "returned" =>
    /\ \A id \in ReturnedTests :
         Cardinality({res \in Results : id \in Classified(res)}) = 1
    /\ ClassCount = Cardinality(ReturnedTests)

\* The tests that got a testDone after the testStart that made their node.
CompletedTests ==
  {id \in ReturnedTests : Since(LastCreate(id) + 1, "testDone", id) # <<>>}

\* C31 as amended: the three classes partition the test nodes that were
\* completed; a test without a testDone is in none of them.
C31_ResultsPartitionCompletedTests ==
  pc = "returned" =>
    /\ \A id \in CompletedTests :
         Cardinality({res \in Results : id \in Classified(res)}) = 1
    /\ \A id \in ReturnedTests \ CompletedTests :
         \A res \in Results : id \notin Classified(res)
    /\ ClassCount = Cardinality(CompletedTests)

C31_Witness ==
  /\ pc = "returned"
  /\ Cardinality(Classified("failure")) = 1
  /\ Cardinality(CompletedTests) = 1
  /\ Cardinality(ReturnedTests) = 2

(***************************************************************************)
(* C32: at every step of the fold, each suite has at most one anonymous    *)
(* root group (name empty, parentID null) in the table, and that group is  *)
(* the top-most group: it is a direct child of the suite and every other   *)
(* group of the suite is its descendant.                                   *)
(***************************************************************************)
SuitesInTable == {id \in DOMAIN trees : trees[id].type = "suite"}

GroupsOfSuite(s) ==
  {id \in DOMAIN trees : trees[id].type = "group" /\ trees[id].group.suiteID = s}

RootGroups(s) ==
  {id \in GroupsOfSuite(s) :
     trees[id].group.name = "" /\ trees[id].group.parentID = Null}

RootGroupIsTopMost ==
  \A s \in SuitesInTable :
    /\ Cardinality(RootGroups(s)) <= 1
    /\ \A r \in RootGroups(s) :
         /\ InChildList(r, trees[s])
         /\ \A g \in GroupsOfSuite(s) \ {r} : g \in Descendants(trees, r)

C32_OneTopMostRootGroup == RootGroupIsTopMost

\* The producer's discipline: ids are distinct, a suite comes before its
\* groups, one group of a suite at most has no parent, and every other group
\* names a group of the same suite that came before it.
GroupsAsProduced ==
  /\ DistinctIds
  /\ \A j \in 1 .. Len(allEvents) :
       allEvents[j].type = "group" =>
         /\ \E i \in 1 .. j - 1 :
              /\ allEvents[i].type = "suite"
              /\ allEvents[i].suite.id = allEvents[j].group.suiteID
         /\ IF allEvents[j].group.parentID = Null
            THEN \A i \in 1 .. j - 1 :
                   ( /\ allEvents[i].type = "group"
                     /\ allEvents[i].group.suiteID = allEvents[j].group.suiteID )
                     => allEvents[i].group.parentID # Null
            ELSE \E i \in 1 .. j - 1 :
                   /\ allEvents[i].type = "group"
                   /\ allEvents[i].group.id = allEvents[j].group.parentID
                   /\ allEvents[i].group.suiteID = allEvents[j].group.suiteID

\* C32 as amended: the reducer keeps the root group top-most when the report
\* has the producer's discipline.
C32_TopMostRootGroupAsProduced == GroupsAsProduced => RootGroupIsTopMost

C32_Witness ==
  /\ GroupsAsProduced
  /\ \E s \in SuitesInTable :
       /\ Cardinality(RootGroups(s)) = 1
       /\ Cardinality(GroupsOfSuite(s)) = 2

(***************************************************************************)
(* Two parseAsync invocations in flight at once, each on a stream of its   *)
(* own.  `trees`, `allEvents` and `doneEvent` are locals of the function   *)
(* body, so each invocation has its own; between two lines of its stream   *)
(* (`for await`) an invocation yields, and the other may read.             *)
(***************************************************************************)
MaxRunLines == 2

Invocations == {1, 2}

\* The suite id and the group / test id of the report on stream i.
StreamSuite(i) == 2 * (i - 1)
StreamChild(i) == 2 * (i - 1) + 1
StreamIds(i) == {StreamSuite(i), StreamChild(i)}

StreamEvents(i) ==
  {SuiteEvent(StreamSuite(i)),
   GroupEvent(StreamChild(i), StreamSuite(i), Null, ""),
   TestStartEvent(StreamChild(i), StreamSuite(i), <<>>),
   TestDoneEvent(StreamChild(i), "success"),
   DoneEvent(TRUE, 1000 * i)}

StreamLines(i) == {JsonLine(e) : e \in StreamEvents(i)} \cup {MalformedLine}

\* The locals of an invocation that has read nothing yet; `readAt` lists,
\* for each line it read, how many lines the two had read by then.
RunInit ==
  [result |-> Undefined, allEvents |-> <<>>, doneEvent |-> JsNull,
   lines |-> <<>>, trees |-> EmptyTable, pc |-> "reading", readAt |-> <<>>]

LinesReadByAll == Len(runs[1].lines) + Len(runs[2].lines)

\* Faulty variant: the table is one object of the module, which every
\* invocation folds its events into.
ReadLineOf_SharedTable(i, line) ==
  /\ runs[i].pc = "reading"
  /\ Len(runs[i].lines) < MaxRunLines
  /\ UNCHANGED <<lines, trees, allEvents, doneEvent, pc, result,
                 totalDurationInSeconds, text, outcome, query>>
  /\ IF \/ JSONParseThrows(line)
        \/ addEventToTreesThrows(runs[i].trees, JSONParse(line))
     THEN runs' = [runs EXCEPT ![i] =
                     [@ EXCEPT !.lines = Append(@, line),
                               !.pc = "thrown",
                               !.readAt = Append(@, LinesReadByAll + 1)]]
     ELSE LET event == JSONParse(line)
              table == addEventToTrees(runs[i].trees, event)
          IN  runs' = [j \in Invocations |->
                        IF j = i
                        THEN [runs[j] EXCEPT
                                !.lines = Append(@, line),
                                !.trees = table,
                                !.allEvents = PushEvent(@, event),
                                !.doneEvent = IF event.type = "done" THEN event ELSE @,
                                !.readAt = Append(@, LinesReadByAll + 1)]
                        ELSE [runs[j] EXCEPT !.trees = table]]

\* One iteration of the loop of invocation i on `line`.
ReadLineOf(i, line) ==
  /\ runs[i].pc = "reading"
  /\ Len(runs[i].lines) < MaxRunLines
  /\ UNCHANGED <<lines, trees, allEvents, doneEvent, pc, result,
                 totalDurationInSeconds, text, outcome, query>>
  /\ IF \/ JSONParseThrows(line)
        \/ addEventToTreesThrows(runs[i].trees, JSONParse(line))
     THEN runs' = [runs EXCEPT ![i] =
                     [@ EXCEPT !.lines = Append(@, line),
                               !.pc = "thrown",
                               !.readAt = Append(@, LinesReadByAll + 1)]]
     ELSE LET event == JSONParse(line)
          IN  runs' = [runs EXCEPT ![i] =
                        [@ EXCEPT
                           !.lines = Append(@, line),
                           !.trees = addEventToTrees(@, event),
                           !.allEvents = PushEvent(@, event),
                           !.doneEvent = IF event.type = "done" THEN event ELSE @,
                           !.readAt = Append(@, LinesReadByAll + 1)]]

\* The stream of invocation i has ended: its promise resolves.
ReturnOf(i) ==
  /\ runs[i].pc = "reading"
  /\ runs' = [runs EXCEPT ![i] =
                [@ EXCEPT !.pc = "returned",
                          !.result = [allEvents |-> runs[i].allEvents,
                                      table |-> runs[i].trees,
                                      doneEvent |-> runs[i].doneEvent]]]
  /\ UNCHANGED <<lines, trees, allEvents, doneEvent, pc, result,
                 totalDurationInSeconds, text, outcome, query>>

InvocationReads == \E i \in Invocations : \E line \in StreamLines(i) : ReadLineOf(i, line)

InvocationReturns == \E i \in Invocations : ReturnOf(i)

ConcurrentInit ==
  /\ ParseInit
  /\ text = <<>>
  /\ outcome = [sync |-> Undefined, async |-> Undefined]
  /\ runs = [i \in Invocations |-> RunInit]

ConcurrentNext ==
  \/ InvocationReads
  \/ InvocationReturns

ConcurrentSpec == ConcurrentInit /\ [][ConcurrentNext]_vars

(***************************************************************************)
(* C33: each invocation owns its table and its log.                        *)
(***************************************************************************)
\* What the lines of the other streams decode to.
EventsOfOthers(i) ==
  UNION {StreamEvents(j) : j \in Invocations \ {i}}

IdsOfOthers(i) == UNION {StreamIds(j) : j \in Invocations \ {i}}

\* C33: when two parseAsync invocations run at once on different streams,
\* whatever the order in which their line reads interleave, each ends as it
\* does alone on its own lines (the same result, or the same failure), and
\* its result holds no node and no event of the other stream.
C33_InvocationsAreIsolated ==
  \A i \in Invocations :
    /\ runs[i].pc = "thrown" => parse(runs[i].lines).threw
    /\ runs[i].pc = "returned" =>
         /\ ~parse(runs[i].lines).threw
         /\ runs[i].result = parse(runs[i].lines).value
         /\ DOMAIN runs[i].result.table \cap IdsOfOthers(i) = {}
         /\ \A k \in 1 .. Len(runs[i].result.allEvents) :
              runs[i].result.allEvents[k] \notin EventsOfOthers(i)

\* Both invocations returned a table with a node, after reading in turns.
C33_Witness ==
  /\ \A i \in Invocations :
       /\ runs[i].pc = "returned"
       /\ DOMAIN runs[i].result.table # {}
  /\ runs[1].readAt = <<1, 3>>
  /\ runs[2].readAt = <<2, 4>>

(***************************************************************************)
(* The Map-shaped reducer of src/src/parser.ts: the same loop, folding     *)
(* each element into a Map whose nodes point at each other.  A reference   *)
(* to a node is modelled by the key the node was stored under, an unset    *)
(* `parent` and a missing suite by Null.                                   *)
(***************************************************************************)
\* { ...element, children: [] } with the optional `parent` not yet set.
GroupTree(element) ==
  IF "time" \in DOMAIN element
  THEN [type |-> "group", group |-> element.group, children |-> <<>>,
        time |-> element.time, parent |-> Null]
  ELSE [type |-> "group", group |-> element.group, children |-> <<>>,
        parent |-> Null]

\* { ...element, suite: trees.get(element.test.suiteID), parent: [] }
TestTree(map, element) ==
  LET suite == IF element.test.suiteID \in DOMAIN map
               THEN element.test.suiteID
               ELSE Null
  IN  IF "time" \in DOMAIN element
      THEN [type |-> "testStart", suite |-> suite, test |-> element.test,
            done |-> Undefined, print |-> Undefined, error |-> Undefined,
            time |-> element.time, parent |-> <<>>]
      ELSE [type |-> "testStart", suite |-> suite, test |-> element.test,
            done |-> Undefined, print |-> Undefined, error |-> Undefined,
            parent |-> <<>>]

\* `if (element.group.parentID)`: null and 0 are falsy.
Truthy(parentID) == parentID # Null /\ parentID # 0

\* groupTree.parent = parent; parent.children.push(groupTree)
Adopt(map, parentId, childId) ==
  PushChild([map EXCEPT ![childId].parent = parentId], parentId, childId)

OnGroupElement(map, element) ==
  LET stored == Put(map, element.group.id, GroupTree(element))
  IN  IF Truthy(element.group.parentID)
      THEN LET parent == Get(stored, element.group.parentID)
           IN  IF parent.type = "suite" \/ parent.type = "group"
               THEN Adopt(stored, element.group.parentID, element.group.id)
               ELSE stored
      ELSE LET parent == Get(stored, element.group.suiteID)
           IN  IF parent.type = "suite"
               THEN Adopt(stored, element.group.suiteID, element.group.id)
               ELSE stored

\* The groups of groupIDs that are in the Map, in the order of groupIDs.
OnTestStartElement(map, element) ==
  LET stored == Put(map, element.test.id, TestTree(map, element))
      IsGroup(groupID) == Get(stored, groupID).type = "group"
  IN  [stored EXCEPT ![element.test.id].parent =
         SelectSeq(element.test.groupIDs, IsGroup)]

addElementToTrees(map, element) ==
  CASE element.type = "start" -> map
    [] element.type = "suite" -> Put(map, element.suite.id, SuiteNode(element))
    [] element.type = "group" -> OnGroupElement(map, element)
    [] element.type = "testStart" -> OnTestStartElement(map, element)
    [] element.type = "testDone" -> OnTestDoneEvent(map, element)
    [] element.type = "print" -> OnPrintEvent(map, element)
    [] element.type = "error" -> OnErrorEvent(map, element)
    [] element.type = "allSuites" -> map
    [] OTHER -> map

\* The Map after the loop of parser.ts has folded `elements`.
RECURSIVE TreesOf(_)
TreesOf(elements) ==
  IF elements = <<>>
  THEN EmptyTable
  ELSE addElementToTrees(TreesOf(SubSeq(elements, 1, Len(elements) - 1)),
                         elements[Len(elements)])

(***************************************************************************)
(* C34: the child lists of the Map-shaped output.                          *)
(***************************************************************************)
\* The key of the parent a testStart element names: its nearest enclosing
\* group (the last of groupIDs), or its suite when it names no group.
ParentNamedBy(element) ==
  IF Len(element.test.groupIDs) > 0
  THEN element.test.groupIDs[Len(element.test.groupIDs)]
  ELSE element.test.suiteID

\* The positions of the log whose testStart created the node now stored
\* under its id, and whose named parent has been in the Map, as a suite or
\* a group, since before that testStart.
TestsWithParent(mapTrees) ==
  {k \in 1 .. Len(allEvents) :
     /\ allEvents[k].type = "testStart"
     /\ LastCreate(allEvents[k].test.id) = k
     /\ ParentNamedBy(allEvents[k]) # allEvents[k].test.id
     /\ HasChildren(Get(mapTrees, ParentNamedBy(allEvents[k])))
     /\ LastCreate(ParentNamedBy(allEvents[k])) < k}

\* C34: in the Map-shaped output of src/src/parser.ts, after any event
\* sequence, every testStart whose enclosing group or owning suite is in
\* the Map is in the children list of that parent (in arrival order, as
\* groups are).
C34_MapChildrenHoldTests ==
  LET mapTrees == TreesOf(allEvents)
  IN  \A k \in TestsWithParent(mapTrees) :
        InChildList(allEvents[k].test.id,
                    mapTrees[ParentNamedBy(allEvents[k])])

(***************************************************************************)
(* C35: the table between two events.                                      *)
(***************************************************************************)
ChildIdsAreKeys ==
  \A p \in ParentIds :
    \A i \in 1 .. Len(trees[p].children) : trees[p].children[i] \in DOMAIN trees

\* The table the reducer makes of `events`, one after the other.
RECURSIVE FoldOf(_)
FoldOf(events) ==
  IF events = <<>>
  THEN EmptyTable
  ELSE addEventToTrees(FoldOf(SubSeq(events, 1, Len(events) - 1)),
                       events[Len(events)])

\* The lines whose event has been processed: all that were pulled, but for
\* the one the loop failed on.
ProcessedLines ==
  IF pc = "thrown" THEN SubSeq(lines, 1, Len(lines) - 1) ELSE lines

\* C35: after every event, and so wherever the caller stops pulling lines,
\* every id in a suite's or group's child list is a key of the table, and
\* the table is the fold of exactly the events processed so far, which are
\* the events of the lines pulled so far.
C35_TableIsConsistentBetweenEvents ==
  /\ ChildIdsAreKeys
  /\ Len(allEvents) = Len(ProcessedLines)
  /\ \A k \in 1 .. Len(allEvents) : allEvents[k] = JSONParse(ProcessedLines[k])
  /\ trees = FoldOf(allEvents)

\* The caller may stop here: three events in, the loop still reading, and a
\* suite that lists two children.
C35_Witness ==
  /\ pc = "reading"
  /\ Len(allEvents) = 3
  /\ \E p \in ParentIds :
       /\ trees[p].type = "suite"
       /\ Len(trees[p].children) = 2
       /\ trees[p].children[1] # trees[p].children[2]

(***************************************************************************)
(* C36: the child-id relation has no cycle.                                *)
(***************************************************************************)
ChildrenIn(table, id) ==
  {child \in DOMAIN table : InChildList(child, table[id])}

\* The ids reached from `id` through one child list or more.
DescendantsProper(table, id) ==
  Below(table, ChildrenIn(table, id), Cardinality(DOMAIN table))

Acyclic(table) ==
  \A id \in DOMAIN table :
    HasChildren(table[id]) => id \notin DescendantsProper(table, id)

\* C36: in every table the reducer produces, no suite or group is its own
\* child or descendant (so the traversal of duration over it ends).
C36_ChildRelationIsAcyclic == Acyclic(trees)

\* A group event that names the group itself as parent.
SelfParent(event) ==
  event.type = "group" /\ event.group.parentID = event.group.id

\* The self-parent group is the only source of a cycle.
C36_AcyclicWithoutSelfParent ==
  (\A k \in 1 .. Len(allEvents) : ~SelfParent(allEvents[k])) => Acyclic(trees)

(***************************************************************************)
(* C37: an id is linked once.                                              *)
(***************************************************************************)
\* The places (parent, position) of child lists that hold `id`.
PlacesOf(id) ==
  {place \in ParentIds \X (1 .. MaxLines) :
     /\ place[2] <= Len(trees[place[1]].children)
     /\ trees[place[1]].children[place[2]] = id}

\* C37: when the ids of all suite, group and testStart events are pairwise
\* distinct, each id occurs at most once across all child lists: no child
\* list has a duplicate and no node is a child of two parents.
C37_EachIdLinkedOnce ==
  DistinctIds => \A id \in DOMAIN trees : Cardinality(PlacesOf(id)) <= 1

\* Without distinct ids an id is listed once for every event that stored it.
C37_ReusedIdLinkedTwice ==
  \E id \in DOMAIN trees : Cardinality(PlacesOf(id)) = 2

\* Three distinct ids: a suite, a group under it and a test under the group.
C37_Witness ==
  /\ DistinctIds
  /\ Len(allEvents) = 3
  /\ \E s, g, t \in DOMAIN trees :
       /\ trees[s].type = "suite" /\ trees[g].type = "group"
       /\ trees[t].type = "testStart"
       /\ PlacesOf(g) = {<<s, 1>>}
       /\ PlacesOf(t) = {<<g, 1>>}

(***************************************************************************)
(* C38: the duration of a suite or group is not negative.                  *)
(***************************************************************************)
ParentDurationReturned ==
  /\ DurationCalled
  /\ ~query.threw
  /\ HasChildren(result.table[query.arg])

\* C38: whenever duration succeeds on a group or suite, the earliest start
\* is at most the node's own timestamp, which is at most the latest end,
\* whatever timestamps the descendants carry; so the elapsed time is not
\* negative, and minutes, seconds and milliseconds are all non-negative with
\* seconds < 60 and milliseconds < 1000.
C38_ParentDurationIsNotNegative ==
  ParentDurationReturned =>
    LET node == result.table[query.arg]
        start == findStartTimestamp(result.table, node)
        end == findEndTimestamp(result.table, node)
    IN  /\ start <= node.time
        /\ node.time <= end
        /\ query.value.minutes >= 0
        /\ query.value.seconds \in 0 .. 59
        /\ query.value.milliseconds \in 0 .. 999
        /\ query.value.minutes * 60000 + query.value.seconds * 1000
             + query.value.milliseconds = end - start

\* duration returned for a suite or group under which a test was completed
\* before the time stamp of the node itself, and before the test's start.
C38_Witness ==
  /\ ParentDurationReturned
  /\ \E t \in Descendants(result.table, query.arg) :
       /\ Completed(result.table[t])
       /\ result.table[t].done.time < result.table[query.arg].time
       /\ result.table[t].done.time < result.table[t].time

(***************************************************************************)
(* parentOfGroup called on the result of any report.                       *)
(***************************************************************************)
GroupQueryNext ==
  \/ Next
  \/ CallParentOfGroup

GroupQuerySpec == Init /\ [][GroupQueryNext]_vars

(***************************************************************************)
(* C39: child lists and parentOfGroup.                                     *)
(***************************************************************************)
ParentOfGroupCalled == query # Undefined /\ query.fn = "parentOfGroup"

\* The nodes whose child list holds the group parentOfGroup was called on.
HoldersOfGroup ==
  {p \in DOMAIN result.table :
     /\ HasChildren(result.table[p])
     /\ InChildList(query.arg, result.table[p])}

\* C39: after any event sequence with distinct ids, for every group g whose
\* id is in the child list of a node p, parentOfGroup(table, g) returns p.
C39_ParentOfGroupIsHolder ==
  (ParentOfGroupCalled /\ DistinctIds) =>
    \A p \in HoldersOfGroup : query.value = result.table[p]

\* C39 as the code and its test have it: a group with a parentID is returned
\* the node that lists it; a group without one (a root group, listed by its
\* suite) is returned null.
C39_ParentOfGroupIsHolderUnlessRoot ==
  (ParentOfGroupCalled /\ DistinctIds) =>
    \A p \in HoldersOfGroup :
      IF result.table[query.arg].group.parentID = Null
      THEN /\ query.value = JsNull
           /\ result.table[p].type = "suite"
           /\ p = result.table[query.arg].group.suiteID
      ELSE query.value = result.table[p]

\* parentOfGroup returned the group that lists the group it was called on.
C39_Witness ==
  /\ ParentOfGroupCalled
  /\ DistinctIds
  /\ \E p \in HoldersOfGroup :
       /\ p # query.arg
       /\ result.table[p].type = "group"
       /\ query.value = result.table[p]

\* parentOfGroup returned null for a root group its suite lists.
C39_RootGroupHasNoParent ==
  /\ ParentOfGroupCalled
  /\ DistinctIds
  /\ HoldersOfGroup # {}
  /\ query.value = JsNull

====
